---- MODULE Spec2Model ----
(***************************************************************************)
(* Model of the WebSocket bridge of agent-chrome-test (ws-bridge.ts, kept  *)
(* as src/unnamed/part_003): the listener, the single current client, the  *)
(* authenticated flag, the pending-command table with its timers, and the  *)
(* handlers that run on the Node event loop (one handler = one step).      *)
(* The peer is the environment: it may connect, send any frame, close.     *)
(***************************************************************************)
EXTENDS Naturals, Integers, Sequences, FiniteSets, TLC

\* ---------------------------------------------------------------- bounds
\* connections opened to the listener during a run
MaxConns == 2
\* commands dispatched (each gets a fresh id) during a run
MaxCmds == 2
Conns == 1..MaxConns
Ids == 1..MaxCmds
\* the value of a null reference (this.client = null)
Null == 0

\* ---------------------------------------------------------------- strings
\* this.authToken: randomBytes(32).toString('hex'), a fixed non-empty string
AuthToken == <<1, 2>>

\* the tokens peers present: the bridge's, the empty string, a proper prefix
\* and a string of its length that differs in the last place
Tokens == {AuthToken, <<>>, <<1>>, <<1, 1>>}

\* the messages of the errors the bridge raises
ErrNotConnected == "Extension not connected"
ErrDisconnected == "Extension disconnected"
ErrShutdown == "Server shutting down"
ErrTimeout == "timed out"
ErrCommandFailed == "Command failed"
ErrInvalidToken == "Invalid auth token"

\* options.allowedOrigins handed to the constructor
SeededOrigins == <<"example.com">>

\* ---------------------------------------------------------------- helpers
RECURSIVE BitXor(_, _)
\* a ^ b on non-negative integers
BitXor(x, y) ==
  IF x = 0 /\ y = 0 THEN 0
  ELSE (((x % 2) + (y % 2)) % 2) + (2 * BitXor(x \div 2, y \div 2))

RECURSIVE BitOr(_, _)
\* a | b on non-negative integers
BitOr(x, y) ==
  IF x = 0 /\ y = 0 THEN 0
  ELSE (IF (x % 2) = 1 \/ (y % 2) = 1 THEN 1 ELSE 0) + (2 * BitOr(x \div 2, y \div 2))

\* mutant of LoopGoesOn: the loop ends at the first mismatch
LoopStopsAtMismatch(a, i, result) == i <= Len(a) /\ result = 0

\* the test of the loop of timingSafeEqual: i < a.length
LoopGoesOn(a, i, result) == i <= Len(a)

RECURSIVE XorFold(_, _, _, _)
\* the loop of timingSafeEqual: result |= a.charCodeAt(i) ^ b.charCodeAt(i)
XorFold(a, b, i, result) ==
  IF ~LoopGoesOn(a, i, result) THEN result
  ELSE XorFold(a, b, i + 1, BitOr(result, BitXor(a[i], b[i])))

RECURSIVE XorReads(_, _, _, _)
\* the positions that loop reads with charCodeAt, in order
XorReads(a, b, i, result) ==
  IF ~LoopGoesOn(a, i, result) THEN <<>>
  ELSE <<i>> \o XorReads(a, b, i + 1, BitOr(result, BitXor(a[i], b[i])))

\* mutant of timingSafeEqual: the loop runs over the shorter string, with no
\* test of the lengths
timingSafeEqualNoLength(a, b) ==
  \A i \in 1..(IF Len(a) < Len(b) THEN Len(a) ELSE Len(b)) : a[i] = b[i]

timingSafeEqual(a, b) ==
  IF Len(a) # Len(b) THEN FALSE ELSE XorFold(a, b, 1, 0) = 0

\* the positions one call of timingSafeEqual reads: none when it returns at
\* the test of the lengths
CharsRead(a, b) == IF Len(a) # Len(b) THEN <<>> ELSE XorReads(a, b, 1, 0)

Min(S) == CHOOSE x \in S : \A y \in S : x <= y

RECURSIVE InOrder(_)
\* the entries of a Map in iteration order: ids are inserted in ascending order
InOrder(S) == IF S = {} THEN <<>> ELSE <<Min(S)>> \o InOrder(S \ {Min(S)})

\* ---------------------------------------------------------------- inputs
\* sanitizeForLog keeps a string of at most this many characters
TruncLimit == 200
\* the length of the marker '...[truncated]'
TruncMarkerLen == 14

\* a params value, a string being known by its length; cut marks a text that
\* is the first TruncLimit characters of the original followed by the marker
Str(text, n) == [isString |-> TRUE, text |-> text, len |-> n, cut |-> FALSE]
NotStr(text) == [isString |-> FALSE, text |-> text, len |-> 0, cut |-> FALSE]

\* an optional argument or field: left out (undefined, null), or given
Absent == [given |-> FALSE, v |-> <<>>]
Opt(v) == [given |-> TRUE, v |-> v]

\* ---------------------------------------------------------------- urls
\* the URL strings of the sample: a host outside every allowlist, an allowed
\* host with a path that makes the string TruncLimit + 1 characters long, a
\* subdomain of an allowed host, a host that only ends like one, a loopback
\* host, a local file, and a string that is no URL
UrlEvil == "https://evil.example/"
UrlLong == "https://example.com/long"
UrlSub == "https://sub.example.com/"
UrlLookalike == "https://notexample.com/"
UrlLocal == "http://localhost/"
UrlFile == "file:///tmp/a.html"
UrlBad == "not a url"

Urls == {UrlEvil, UrlLong, UrlSub, UrlLookalike, UrlLocal, UrlFile, UrlBad}

Parsed(protocol, hostname) ==
  [ok |-> TRUE, protocol |-> protocol, hostname |-> hostname]

\* new URL(text) on the strings of the sample and on the allowlist entries:
\* ok FALSE is the TypeError; a hostname is its dot-separated labels
ParseUrl(text) ==
  CASE text = UrlEvil -> Parsed("https:", <<"evil", "example">>)
    [] text = UrlLong -> Parsed("https:", <<"example", "com">>)
    [] text = UrlSub -> Parsed("https:", <<"sub", "example", "com">>)
    [] text = UrlLookalike -> Parsed("https:", <<"notexample", "com">>)
    [] text = UrlLocal -> Parsed("http:", <<"localhost">>)
    [] text = UrlFile -> Parsed("file:", <<>>)
    [] text = "https://example.com" -> Parsed("https:", <<"example", "com">>)
    [] text = "https://notexample.com" -> Parsed("https:", <<"notexample", "com">>)
    [] text = "http://localhost" -> Parsed("http:", <<"localhost">>)
    [] text = "https://localhost" -> Parsed("https:", <<"localhost">>)
    [] text = "http://127.0.0.1" -> Parsed("http:", <<"127", "0", "0", "1">>)
    [] text = "https://127.0.0.1" -> Parsed("https:", <<"127", "0", "0", "1">>)
    [] OTHER -> [ok |-> FALSE, protocol |-> "", hostname |-> <<>>]

\* origin.includes('://') ? origin : `https://${origin}`
WithScheme(origin) ==
  CASE origin = "example.com" -> "https://example.com"
    [] origin = "notexample.com" -> "https://notexample.com"
    [] origin = "" -> "https://"
    [] OTHER -> origin

\* parsed.hostname === h || parsed.hostname.endsWith(`.${h}`)
HostMatches(hostname, h) ==
  \/ hostname = h
  \/ /\ Len(hostname) > Len(h)
     /\ Len(h) > 0
     /\ SubSeq(hostname, Len(hostname) - Len(h) + 1, Len(hostname)) = h

RECURSIVE SomeOrigin(_, _, _)
\* allowedOrigins.some(...) from entry i on: "true", "false", or "throw"
\* when an entry that is reached does not parse
SomeOrigin(origins, i, hostname) ==
  IF i > Len(origins) THEN "false"
  ELSE LET parsedOrigin == ParseUrl(WithScheme(origins[i])) IN
       IF ~parsedOrigin.ok THEN "throw"
       ELSE IF HostMatches(hostname, parsedOrigin.hostname) THEN "true"
       ELSE SomeOrigin(origins, i + 1, hostname)

\* isUrlAllowed(url) over the allowlist origins
isUrlAllowedBy(origins, url) ==
  LET parsed == ParseUrl(url) IN
  IF ~parsed.ok THEN FALSE
  ELSE IF parsed.protocol = "file:" THEN TRUE
  ELSE SomeOrigin(origins, 1, parsed.hostname) = "true"

\* the extension's own seeds of the allowlist
LoopbackSeeds ==
  <<"http://localhost", "https://localhost", "http://127.0.0.1",
    "https://127.0.0.1">>

\* the calls of sendCommand the tool surface makes (a sample): navigate is
\* called with { url }, a string known by its text and its length
Calls ==
  {[command |-> "url", params |-> NotStr("undefined")],
   [command |-> "navigate", params |-> Str(UrlEvil, 21)],
   [command |-> "navigate", params |-> Str(UrlSub, TruncLimit)],
   [command |-> "navigate", params |-> Str(UrlLong, TruncLimit + 1)]}

\* mutant of sanitizeForLog: the value is logged as it came
sanitizeForLogRaw(v) == v

\* mutant of sanitizeForLog: a string of TruncLimit characters is cut too
sanitizeForLogAtLimit(v) ==
  IF v.isString /\ v.len >= TruncLimit
  THEN [v EXCEPT !.len = TruncLimit + TruncMarkerLen, !.cut = TRUE]
  ELSE v

\* sanitizeForLog on one value of the params object
sanitizeForLog(v) ==
  IF v.isString /\ v.len > TruncLimit
  THEN [v EXCEPT !.len = TruncLimit + TruncMarkerLen, !.cut = TRUE]
  ELSE v

\* the frames a peer may write to its socket. A response's id is an id the
\* bridge has dispatched (ids are random UUIDs, a peer knows those it was
\* sent), 0 for a missing (falsy) id, MaxCmds + 1 for an id never dispatched;
\* error "none" is a response without an error field.
\* a token that is not a string (tokenIsString FALSE) keeps its content, so
\* that the typeof test is what tells it from the bridge's token
AuthFrames ==
  [type : {"auth"}, tokenIsString : {TRUE}, token : Tokens,
   extensionId : {"ext1"}]
    \cup [type : {"auth"}, tokenIsString : {TRUE}, token : {<<1, 2, 1>>},
          extensionId : {"none"}]
    \cup [type : {"auth"}, tokenIsString : {FALSE}, token : {AuthToken},
          extensionId : {"ext1"}]

ResponseFrames ==
  [type : {"response"}, id : 0..(MaxCmds + 1), success : {TRUE},
   data : {"d1"}, error : {"none"}]
    \cup [type : {"response"}, id : Ids, success : {FALSE},
          data : {"none"}, error : {"boom"}]
    \cup [type : {"response"}, id : {1}, success : {FALSE},
          data : {"none"}, error : {"none"}]

CommandFrames ==
  [type : {"command"}, command : {"ping", "url"}, id : {"k1"}]

OtherFrames == {[type |-> "malformed"]}

PeerFrames == AuthFrames \cup ResponseFrames \cup CommandFrames \cup OtherFrames

NoFrame == [type |-> "none"]

\* ------------------------------------------------- extension: service worker
\* WebSocket objects of the extension that are alive at one time
MaxSocks == 2
Socks == 1..MaxSocks
\* entries of the allowlist (the seeds and what handshakes have added)
MaxOrigins == 6
\* connection attempts that fail in a row (the server is down, or the url
\* is not valid) before one succeeds
MaxFails == 6

RECONNECT_BASE_MS == 1000
RECONNECT_MAX_MS == 30000
MAX_RECONNECT_ATTEMPTS == 50

\* no command is being executed
NoJob == [stage |-> "none", id |-> "none", command |-> "none", url |-> "none"]

\* the module-level lets of the service worker as the script is loaded, the
\* readyState of the WebSocket objects it has created, those among them
\* that were opened and may deliver a message (rx), the URL of the
\* active tab, the command executeCommand is awaiting on, whether the
\* current socket was answered auth_result failure (and not success since),
\* and the handler that ran last
ExtStart ==
  [ws |-> Null,
   readyState |-> [s \in Socks |-> "NEW"],
   rx |-> {},
   authToken |-> "null",
   port |-> "valid",
   isAuthenticated |-> FALSE,
   reconnectAttempts |-> 0,
   keepaliveTimer |-> FALSE,
   reconnectTimer |-> FALSE,
   allowedOrigins |-> LoopbackSeeds,
   tabUrl |-> "about:blank",
   job |-> NoJob,
   refused |-> FALSE,
   networkCaptureActive |-> FALSE,
   capturedRequests |-> <<>>,
   networkCapturePattern |-> Absent,
   op |-> "init", sock |-> Null, frame |-> NoFrame, eff |-> <<>>]

\* a handler starts: its name, the socket and the frame it is for
Begin(e, op, s, f) ==
  [e EXCEPT !.op = op, !.sock = s, !.frame = f, !.eff = <<>>]

Emit(e, x) == [e EXCEPT !.eff = Append(@, x)]

\* effects of the extension's handlers
WsSend(s, f) == [k |-> "send", to |-> s, frame |-> f]
SetTimeout(delay, attempt) ==
  [k |-> "setTimeout", delay |-> delay, attempt |-> attempt]
TabsUpdate(url) == [k |-> "tabsUpdate", url |-> url]
Badge(status) == [k |-> "badge", status |-> status]

updateBadge(e, status) == Emit(e, Badge(status))

RECURSIVE ScaledDelay(_)
\* RECONNECT_BASE_MS * Math.pow(2, k), doubled only while it is within the
\* cap: the doubles of the code hold every product exactly, and past the
\* cap a further doubling does not change the minimum
ScaledDelay(k) ==
  IF k = 0 THEN RECONNECT_BASE_MS
  ELSE LET d == ScaledDelay(k - 1) IN
       IF d > RECONNECT_MAX_MS THEN d ELSE 2 * d

\* mutant of reconnectDelay: the cap is not applied
reconnectDelayUncapped(k) == ScaledDelay(k)

\* Math.min(RECONNECT_BASE_MS * Math.pow(2, reconnectAttempts),
\* RECONNECT_MAX_MS)
reconnectDelay(k) ==
  IF ScaledDelay(k) < RECONNECT_MAX_MS THEN ScaledDelay(k)
  ELSE RECONNECT_MAX_MS

\* scheduleReconnect()
scheduleReconnect(e) ==
  IF e.reconnectAttempts >= MAX_RECONNECT_ATTEMPTS
  THEN updateBadge(e, "error")
  ELSE Emit([e EXCEPT !.reconnectAttempts = @ + 1, !.reconnectTimer = TRUE],
            SetTimeout(reconnectDelay(e.reconnectAttempts),
                       e.reconnectAttempts))

stopKeepalive(e) == [e EXCEPT !.keepaliveTimer = FALSE]

startKeepalive(e) == [stopKeepalive(e) EXCEPT !.keepaliveTimer = TRUE]

\* the test of connect(): the socket is OPEN or CONNECTING
WsIsLive(e) ==
  e.ws # Null /\ e.readyState[e.ws] \in {"OPEN", "CONNECTING"}

\* WebSocket objects that can stand for a new one: never created, or closed
\* and no longer referenced
FreeSocks(e) ==
  {s \in Socks : s # e.ws /\ e.readyState[s] \in {"NEW", "CLOSED"}}

\* connect(): return while the socket is live; otherwise new WebSocket(url),
\* which throws when the port makes the url invalid (then scheduleReconnect)
connect(e) ==
  IF WsIsLive(e) THEN e
  ELSE IF e.port = "invalid" THEN scheduleReconnect(e)
  ELSE LET s == Min(FreeSocks(e)) IN
       [e EXCEPT !.ws = s, !.readyState[s] = "CONNECTING",
                 !.refused = FALSE]

\* sendResponse(id, success, data, error): written only to an OPEN socket
sendResponse(e, id, success, data, error) ==
  IF e.ws = Null \/ e.readyState[e.ws] # "OPEN" THEN e
  ELSE Emit(e, WsSend(e.ws, [id |-> id, type |-> "response",
                             success |-> success, data |-> data,
                             error |-> error]))

\* mutant of isUrlAllowed: every URL passes
isUrlAllowedAlways(e, url) == TRUE

\* isUrlAllowed(url) on the allowlist as it is now
isUrlAllowed(e, url) == isUrlAllowedBy(e.allowedOrigins, url)

\* mutant of ExtendOrigins: the list of the server replaces the allowlist
ReplaceOrigins(cur, more) == more

\* [...allowedOrigins, ...msg.allowedOrigins]
ExtendOrigins(cur, more) == cur \o more

\* the frames the server side may write to the extension's socket; a
\* command carries its params.url ("none" when it has none)
ServerFrames ==
  [type : {"auth_result"}, success : {TRUE},
   allowedOrigins : {<<>>, SeededOrigins}]
    \cup {[type |-> "auth_result", success |-> FALSE,
           allowedOrigins |-> <<>>]}
    \cup [type : {"command"}, id : {"c1"}, command : {"navigate"},
          url : {UrlEvil, UrlSub}]
    \cup {[type |-> "command", id |-> "c1", command |-> "url",
           url |-> "none"]}
    \cup {[type |-> "malformed"]}

\* handleMessage(raw) up to its first await
handleMessage(e, s, f) ==
  IF f.type = "malformed" THEN e
  ELSE IF f.type = "auth_result"
  THEN LET e1 == [e EXCEPT !.isAuthenticated = f.success,
                           !.refused = IF s = e.ws THEN ~f.success
                                       ELSE @] IN
       IF f.success
       THEN updateBadge(
              [e1 EXCEPT !.allowedOrigins = ExtendOrigins(@, f.allowedOrigins)],
              "connected")
       ELSE updateBadge(e1, "error")
  ELSE IF ~e.isAuthenticated /\ e.authToken # "null"
  THEN sendResponse(e, f.id, FALSE, "none", "Not authenticated")
  ELSE IF f.type # "command" THEN e
  ELSE [e EXCEPT !.job = [stage |-> "tab", id |-> f.id,
                          command |-> f.command, url |-> f.url]]

\* executeCommand(cmd) from the await it is at, with the outcome of that
\* await: getActiveTabId ("ok" or "notab"), then waitForTabLoad ("ok" or
\* "timeout"); the response is written when the command ends
executeCommand(e, outcome) ==
  LET j == e.job
      done == [e EXCEPT !.job = NoJob] IN
  IF j.stage = "load"
  THEN IF outcome = "ok"
       THEN sendResponse(done, j.id, TRUE, j.url, "none")
       ELSE sendResponse(done, j.id, FALSE, "none", "Page load timeout")
  ELSE IF outcome # "ok"
  THEN sendResponse(done, j.id, FALSE, "none", "No active tab found")
  ELSE IF j.command = "navigate"
  THEN IF ~isUrlAllowed(e, j.url)
       THEN sendResponse(done, j.id, FALSE, "none", "URL not in allowlist")
       ELSE Emit([e EXCEPT !.tabUrl = j.url, !.job.stage = "load"],
                 TabsUpdate(j.url))
  ELSE IF j.command = "url"
  THEN sendResponse(done, j.id, TRUE, e.tabUrl, "none")
  ELSE sendResponse(done, j.id, FALSE, "none", "Unknown command")

\* ------------------------------------------------------ server: test session
\* assertions buffered by one session (guards of the calls that record one)
MaxAsserts == 2
\* the clock: Date values the model tells apart
MaxNow == 2
Times == 1..MaxNow

\* this.name: null, or the string start() was given
NoName == [isNull |-> TRUE, text |-> ""]
Name(x) == [isNull |-> FALSE, text |-> x]

\* session names the agent uses, the empty string and 'unnamed' among them
SessionNames == {"s", "", "unnamed"}
Messages == {"a", "b"}

\* a TestSession after construction
NewSession == [name |-> NoName, assertions |-> <<>>, startedAt |-> Null]

\* get active()
active(t) == ~t.name.isNull

\* mutant of start: the buffer is kept
startKeepsBuffer(t, name, now) ==
  [t EXCEPT !.name = Name(name), !.startedAt = now]

\* start(name)
start(t, name, now) ==
  [name |-> Name(name), assertions |-> <<>>, startedAt |-> now]

\* addAssertion(passed, message)
addAssertion(t, passed, message, now) ==
  [t EXCEPT !.assertions =
     Append(@, [passed |-> passed, message |-> message, timestamp |-> now])]

\* this.assertions.filter(keep).length
FilterLength(as, want) ==
  Cardinality({i \in 1..Len(as) : as[i].passed = want})

\* mutant of SummaryName: an idle session's summary has an empty name
SummaryNameEmpty(t) == t.name.text

\* this.name ?? 'unnamed'
SummaryName(t) == IF t.name.isNull THEN "unnamed" ELSE t.name.text

\* mutant of Summary: passed tells that some assertion passed
SummaryAnyPassed(t, endedAt) ==
  [k |-> "summary",
   name |-> SummaryName(t),
   passed |-> (FilterLength(t.assertions, TRUE) > 0),
   total |-> Len(t.assertions),
   passed_count |-> FilterLength(t.assertions, TRUE),
   failed_count |-> FilterLength(t.assertions, FALSE),
   assertions |-> t.assertions,
   startedAt |-> IF t.startedAt = Null THEN endedAt ELSE t.startedAt,
   endedAt |-> endedAt,
   durationMs |-> endedAt - (IF t.startedAt = Null THEN endedAt
                             ELSE t.startedAt)]

\* the summary end() builds
Summary(t, endedAt) ==
  [k |-> "summary",
   name |-> SummaryName(t),
   passed |-> (FilterLength(t.assertions, FALSE) = 0),
   total |-> Len(t.assertions),
   passed_count |-> FilterLength(t.assertions, TRUE),
   failed_count |-> FilterLength(t.assertions, FALSE),
   assertions |-> t.assertions,
   startedAt |-> IF t.startedAt = Null THEN endedAt ELSE t.startedAt,
   endedAt |-> endedAt,
   durationMs |-> endedAt - (IF t.startedAt = Null THEN endedAt
                             ELSE t.startedAt)]

\* what a call of the server returned: nothing, a value or an error
Void == [k |-> "void"]

\* the server process: the TestSession, and the call that ran last with
\* its arguments and what it returned; files are the files under the
\* store's directory, by path; call is the tool call in progress.
\* idleAdds is history: the assertions
\* addAssertion took while the session was idle, since the last end()
McpStart ==
  [session |-> NewSession,
   idleAdds |-> <<>>,
   files |-> <<>>,
   saved |-> {},
   call |-> [stage |-> "none"],
   now |-> 1,
   op |-> "init",
   arg |-> Void,
   ret |-> Void]

\* ---------------------------------------------------------------- state
VARIABLES
  wss,              \* the listener: "null", "listening" or "closed"
  client,           \* this.client: a connection or Null
  isAuthenticated,  \* this.isAuthenticated
  pending,          \* the ids in this.pending
  timers,           \* the ids whose timeout timer is armed
  rs,               \* readyState of each connection's socket
  accepted,         \* the connection got the message and close handlers
  rx,               \* the socket's receiver may still emit 'message'
  nconns,           \* connections that have reached the listener
  nextId,           \* commands dispatched so far
  settled,          \* per id, the resolve and reject calls on its promise so far
  authOk,           \* the connection was answered auth_result success since it opened
  last,             \* the handler that ran last, its input and its effects
  ext,              \* the extension's service worker: its module-level state
  mcp               \* the server process behind the tool surface: session, store, calls

vars ==
  <<wss, client, isAuthenticated, pending, timers, rs, accepted, rx, nconns,
    nextId, settled, authOk, last, ext, mcp>>

\* mutant of connected: the test of the flag alone
connectedFlagOnly == isAuthenticated

\* get connected(): the client's socket is OPEN and the flag is set
connected == client # Null /\ rs[client] = "OPEN" /\ isAuthenticated

\* mutant of ClientIsOpen: the handler never refuses
ClientIsOpenNever == FALSE

\* mutant of ClientIsOpen: only an authenticated client keeps others out
ClientIsOpenAndAuthenticated ==
  client # Null /\ rs[client] = "OPEN" /\ isAuthenticated

\* the test of the connection handler: this.client?.readyState === OPEN
ClientIsOpen == client # Null /\ rs[client] = "OPEN"

Did(op, c, f, eff) == [op |-> op, conn |-> c, frame |-> f, eff |-> eff]

\* effects of a handler, in the order the code performs them
Send(c, f) == [k |-> "send", to |-> c, open |-> (rs[c] = "OPEN"), frame |-> f]
Audit(action, params) == [k |-> "audit", action |-> action, params |-> params]
Settle(i, how) == [k |-> "settle", id |-> i, how |-> how]
CloseConn(c, code) == [k |-> "close", conn |-> c, code |-> code]
Callback(name) == [k |-> name]
Throw(msg) == [k |-> "throw", error |-> msg]

Resolved(by, data) == [by |-> by, ok |-> TRUE, val |-> data]
Rejected(by, msg) == [by |-> by, ok |-> FALSE, val |-> msg]

Init ==
  /\ wss = "null"
  /\ client = Null
  /\ isAuthenticated = FALSE
  /\ pending = {}
  /\ timers = {}
  /\ rs = [c \in Conns |-> "NEW"]
  /\ accepted = [c \in Conns |-> FALSE]
  /\ rx = [c \in Conns |-> FALSE]
  /\ nconns = 0
  /\ nextId = 0
  /\ settled = [i \in Ids |-> 0]
  /\ authOk = [c \in Conns |-> FALSE]
  /\ last = Did("init", Null, NoFrame, <<>>)
  /\ ext = ExtStart
  /\ mcp = McpStart

\* ---------------------------------------------------------------- start
\* start(): the listener is bound and accepts connections
Start ==
  /\ wss = "null"
  /\ wss' = "listening"
  /\ last' = Did("start", Null, NoFrame, <<>>)
  /\ UNCHANGED <<mcp, ext, client, isAuthenticated, pending, timers, rs, accepted, rx,
                 nconns, nextId, settled, authOk>>

\* ---------------------------------------------------------------- connection
\* wss.on('connection'): refuse while the current client's socket is OPEN,
\* otherwise take the new socket as the client and register its handlers
OnConnection(c) ==
  IF ClientIsOpen
  THEN /\ rs' = [rs EXCEPT ![c] = "CLOSING"]
       /\ last' = Did("connection", c, NoFrame, <<CloseConn(c, 4001)>>)
       /\ UNCHANGED <<client, isAuthenticated, accepted, rx>>
  ELSE /\ rs' = [rs EXCEPT ![c] = "OPEN"]
       /\ client' = c
       /\ isAuthenticated' = FALSE
       /\ accepted' = [accepted EXCEPT ![c] = TRUE]
       /\ rx' = [rx EXCEPT ![c] = TRUE]
       /\ last' = Did("connection", c, NoFrame, <<>>)

\* a peer connects: the handler runs for the next socket
Connect ==
  /\ wss = "listening"
  /\ nconns < MaxConns
  /\ nconns' = nconns + 1
  /\ OnConnection(nconns + 1)
  /\ UNCHANGED <<mcp, ext, wss, pending, timers, nextId, settled, authOk>>

\* ---------------------------------------------------------------- rejection
\* the loop "for (const [id, pending] of this.pending)": reject, clear the
\* timer, delete
RejectAll ==
  [i \in Ids |-> IF i \in pending THEN settled[i] + 1 ELSE settled[i]]

SettleAll(by, msg) ==
  [j \in 1..Cardinality(pending) |->
     Settle(InOrder(pending)[j], Rejected(by, msg))]

\* mutant of DeleteAll: the entries stay in the table
DeleteAllSkipped == pending

\* the pending table after the loop: this.pending.delete(id) for every id
DeleteAll == {}

\* ---------------------------------------------------------------- close
\* the guard of the close handler: if (this.client === ws)
CloseGuard(c) == client = c

\* what a close event finds: whether the socket had the bridge's handlers
\* and whether it was the current client
Closing(c) ==
  [type |-> "closing", accepted |-> accepted[c], current |-> (client = c)]

\* the peer's close frame arrives: the socket is CLOSING, its receiver ends
PeerCloseFrame(c) ==
  /\ rs[c] = "OPEN"
  /\ rs' = [rs EXCEPT ![c] = "CLOSING"]
  /\ rx' = [rx EXCEPT ![c] = FALSE]
  /\ last' = Did("closeFrame", c, NoFrame, <<>>)
  /\ UNCHANGED <<mcp, ext, wss, client, isAuthenticated, pending, timers, accepted,
                 nconns, nextId, settled, authOk>>

\* the TCP connection is lost without a close frame: the socket is CLOSING
\* while the receiver drains the frames already buffered
SocketLost(c) ==
  /\ rs[c] = "OPEN"
  /\ rs' = [rs EXCEPT ![c] = "CLOSING"]
  /\ last' = Did("socketLost", c, NoFrame, <<>>)
  /\ UNCHANGED <<mcp, ext, wss, client, isAuthenticated, pending, timers, accepted, rx,
                 nconns, nextId, settled, authOk>>

\* ws.on('close'): the socket is CLOSED; the handler acts only for the
\* current client
SocketClosed(c) ==
  /\ rs[c] = "CLOSING"
  /\ rs' = [rs EXCEPT ![c] = "CLOSED"]
  /\ rx' = [rx EXCEPT ![c] = FALSE]
  /\ authOk' = [authOk EXCEPT ![c] = FALSE]
  /\ accepted' = [accepted EXCEPT ![c] = FALSE]
  /\ IF accepted[c] /\ CloseGuard(c)
     THEN /\ client' = Null
          /\ isAuthenticated' = FALSE
          /\ settled' = RejectAll
          /\ timers' = timers \ pending
          /\ pending' = DeleteAll
          /\ last' = Did("close", c, Closing(c),
                         SettleAll("close", ErrDisconnected)
                           \o <<Callback("onDisconnect")>>)
     ELSE /\ last' = Did("close", c, Closing(c), <<>>)
          /\ UNCHANGED <<client, isAuthenticated, settled, timers, pending>>
  /\ UNCHANGED <<mcp, ext, wss, nconns, nextId>>

\* ---------------------------------------------------------------- stop
\* mutant of Stop: the client and the listener are closed, the pending
\* requests are left alone
StopClosesOnly ==
  /\ wss # "null"
  /\ rs' = IF client # Null /\ rs[client] = "OPEN"
           THEN [rs EXCEPT ![client] = "CLOSING"] ELSE rs
  /\ wss' = "closed"
  /\ last' = Did("stop", client, NoFrame,
                 (IF client # Null THEN <<CloseConn(client, 1005)>> ELSE <<>>)
                   \o <<Callback("listenerClose")>>)
  /\ UNCHANGED <<mcp, ext, client, isAuthenticated, pending, timers, accepted, rx,
                 nconns, nextId, settled, authOk>>

\* stop(): reject all pending, close the client, close the listener. Its
\* callers (the signal handlers of main) exist once start() has run.
Stop ==
  /\ wss # "null"
  /\ settled' = RejectAll
  /\ timers' = timers \ pending
  /\ pending' = DeleteAll
  /\ rs' = IF client # Null /\ rs[client] = "OPEN"
           THEN [rs EXCEPT ![client] = "CLOSING"] ELSE rs
  /\ wss' = "closed"
  /\ last' = Did("stop", client, NoFrame,
                 SettleAll("stop", ErrShutdown)
                   \o (IF client # Null THEN <<CloseConn(client, 1005)>>
                       ELSE <<>>)
                   \o <<Callback("listenerClose")>>)
  /\ UNCHANGED <<mcp, ext, client, isAuthenticated, accepted, rx, nconns, nextId,
                 authOk>>

\* ---------------------------------------------------------------- dispatch
\* sendCommand(command, params): throw when not connected; otherwise audit,
\* arm the timer, add the pending entry and write the command frame
SendCommand(cmd, p) ==
  IF ~connected
  THEN /\ last' = Did("sendCommand", Null,
                      [type |-> "call", command |-> cmd, params |-> p],
                      <<Throw(ErrNotConnected)>>)
       /\ UNCHANGED <<mcp, ext, wss, client, isAuthenticated, pending, timers, rs,
                      accepted, rx, nconns, nextId, settled, authOk>>
  ELSE /\ nextId < MaxCmds
       /\ LET id == nextId + 1 IN
          /\ nextId' = id
          /\ timers' = timers \cup {id}
          /\ pending' = pending \cup {id}
          /\ last' = Did("sendCommand", client,
                         [type |-> "call", command |-> cmd, params |-> p],
                         <<Audit(cmd, sanitizeForLog(p)),
                           Send(client, [id |-> id, type |-> "command",
                                         command |-> cmd, params |-> p])>>)
       /\ UNCHANGED <<mcp, ext, wss, client, isAuthenticated, rs, accepted, rx, nconns,
                      settled, authOk>>

\* mutant of AfterExpiry: the entry stays in the table
AfterExpiryKeeps(id) == pending

\* the pending table after the timer callback: this.pending.delete(id)
AfterExpiry(id) == pending \ {id}

\* the timer of a dispatched command fires
Timeout(id) ==
  /\ id \in timers
  /\ timers' = timers \ {id}
  /\ pending' = AfterExpiry(id)
  /\ settled' = [settled EXCEPT ![id] = @ + 1]
  /\ last' = Did("timeout", Null, NoFrame,
                 <<Settle(id, Rejected("timeout", ErrTimeout))>>)
  /\ UNCHANGED <<mcp, ext, wss, client, isAuthenticated, rs, accepted, rx, nconns,
                 nextId, authOk>>

\* ---------------------------------------------------------------- frames
\* typeof msg.token === 'string' && msg.token.length > 0 &&
\* timingSafeEqual(msg.token, this.authToken)
validToken(f) ==
  f.tokenIsString /\ Len(f.token) > 0 /\ timingSafeEqual(f.token, AuthToken)

\* msg.extensionId as a params value
ExtensionId(f) ==
  IF f.extensionId = "none" THEN NotStr("undefined")
  ELSE Str(f.extensionId, 4)

AuthResultOk ==
  [type |-> "auth_result", success |-> TRUE, allowedOrigins |-> SeededOrigins]

AuthResultFail ==
  [type |-> "auth_result", success |-> FALSE, error |-> ErrInvalidToken]

\* handleMessage, msg.type === 'auth'
HandleAuth(c, f) ==
  IF validToken(f)
  THEN /\ isAuthenticated' = TRUE
       /\ authOk' = [authOk EXCEPT ![c] = TRUE]
       /\ last' = Did("message", c, f,
                      <<Send(c, AuthResultOk), Callback("onConnect")>>)
       /\ UNCHANGED <<pending, timers, settled>>
  ELSE /\ last' = Did("message", c, f,
                      <<Send(c, AuthResultFail),
                        Audit("auth_failed", sanitizeForLog(ExtensionId(f)))>>)
       /\ UNCHANGED <<isAuthenticated, authOk, pending, timers, settled>>

\* mutant of PeerError: the peer's message is dropped
PeerErrorGeneric(f) == ErrCommandFailed

\* msg.error ?? 'Command failed'
PeerError(f) == IF f.error = "none" THEN ErrCommandFailed ELSE f.error

\* mutant of AfterResponse: the entry stays in the table
AfterResponseKeeps(id) == pending

\* the pending table after a response for an id it holds
AfterResponse(id) == pending \ {id}

\* mutant of clearTimeout: the timer stays armed
clearTimeoutSkipped(id) == timers

\* the armed timers after clearTimeout(pending.timer) for the entry of id
clearTimeout(id) == timers \ {id}

\* handleMessage, msg.type === 'response' && msg.id
HandleResponse(c, f) ==
  IF f.id \in pending
  THEN LET how == IF f.success THEN Resolved("response", f.data)
                  ELSE Rejected("response", PeerError(f)) IN
       /\ timers' = clearTimeout(f.id)
       /\ pending' = AfterResponse(f.id)
       /\ settled' = [settled EXCEPT ![f.id] = @ + 1]
       /\ last' = Did("message", c, f, <<Settle(f.id, how)>>)
       /\ UNCHANGED <<isAuthenticated, authOk>>
  ELSE /\ last' = Did("message", c, f, <<>>)
       /\ UNCHANGED <<isAuthenticated, authOk, pending, timers, settled>>

\* mutant of Pong: the reply does not carry the id of the ping
PongWithoutId(f) ==
  [id |-> "none", type |-> "response", success |-> TRUE, data |-> "pong"]

\* the reply to a ping: { id: msg.id, type: 'response', success: true,
\* data: { pong: true } }
Pong(f) == [id |-> f.id, type |-> "response", success |-> TRUE, data |-> "pong"]

\* handleMessage, msg.type === 'command' && msg.command === 'ping'
HandlePing(c, f) ==
  /\ last' = Did("message", c, f, <<Send(c, Pong(f))>>)
  /\ UNCHANGED <<isAuthenticated, authOk, pending, timers, settled>>

\* handleMessage: a frame nothing matches, or one JSON.parse rejects
HandleIgnored(c, f) ==
  /\ last' = Did("message", c, f, <<>>)
  /\ UNCHANGED <<isAuthenticated, authOk, pending, timers, settled>>

\* ws.on('message') of an accepted connection: handleMessage(ws, raw)
Recv(c, f) ==
  /\ accepted[c]
  /\ rx[c]
  /\ f.type = "response" => f.id \in (1..nextId) \cup {0, MaxCmds + 1}
  /\ IF f.type = "auth" THEN HandleAuth(c, f)
     ELSE IF f.type = "response" /\ f.id # 0 THEN HandleResponse(c, f)
     ELSE IF f.type = "command" /\ f.command = "ping" THEN HandlePing(c, f)
     ELSE HandleIgnored(c, f)
  /\ UNCHANGED <<mcp, ext, wss, client, rs, accepted, rx, nconns, nextId>>

\* ---------------------------------------------------------------- system
Next ==
  \/ Start
  \/ Connect
  \/ Stop
  \/ \E c \in Conns : PeerCloseFrame(c)
  \/ \E c \in Conns : SocketLost(c)
  \/ \E c \in Conns : SocketClosed(c)
  \/ \E call \in Calls : SendCommand(call.command, call.params)
  \/ \E id \in Ids : Timeout(id)
  \/ \E c \in Conns, f \in PeerFrames : Recv(c, f)

Spec == Init /\ [][Next]_vars

\* ---------------------------------------------------------------- types
TypeOK ==
  /\ wss \in {"null", "listening", "closed"}
  /\ client \in Conns \cup {Null}
  /\ isAuthenticated \in BOOLEAN
  /\ pending \subseteq Ids
  /\ timers \subseteq Ids
  /\ rs \in [Conns -> {"NEW", "OPEN", "CLOSING", "CLOSED"}]
  /\ accepted \in [Conns -> BOOLEAN]
  /\ rx \in [Conns -> BOOLEAN]
  /\ nconns \in 0..MaxConns
  /\ nextId \in 0..MaxCmds
  /\ settled \in [Ids -> Nat]
  /\ authOk \in [Conns -> BOOLEAN]
  /\ last.op \in {"init", "start", "connection", "closeFrame", "socketLost",
                  "close", "stop", "sendCommand", "timeout", "message"}

\* ------------------------------------------------------- token comparison
\* the strings timingSafeEqual is called with: char codes 1 and 2, up to
\* MaxTokenLen of them
MaxTokenLen == 3
CharCodes == {1, 2}
TokenStrings ==
  UNION {[1..n -> CharCodes] : n \in 0..MaxTokenLen}

\* timingSafeEqual(a, b) is called and returns: the positions it has read
\* and its value
TokenCompared(a, b) ==
  /\ last' = Did("timingSafeEqual", Null,
                 [type |-> "compare", a |-> a, b |-> b],
                 [j \in 1..Len(CharsRead(a, b)) |->
                    [k |-> "charCodeAt", i |-> CharsRead(a, b)[j]]]
                   \o <<[k |-> "return", v |-> timingSafeEqual(a, b)]>>)
  /\ UNCHANGED <<mcp, ext, wss, client, isAuthenticated, pending, timers, rs,
                 accepted, rx, nconns, nextId, settled, authOk>>

TokenNext == \E a \in TokenStrings, b \in TokenStrings : TokenCompared(a, b)

TokenSpec == Init /\ [][TokenNext]_vars

\* ------------------------------------------------------------ reconnection
\* two peers of a running bridge: one that connects and never presents the
\* valid token, and the extension that holds it, which connects again, after
\* every close, by scheduleReconnect
Squatter == 1
HolderConns == Conns \ {Squatter}

\* the auth frame of the holder of the token
HolderAuth ==
  [type |-> "auth", tokenIsString |-> TRUE, token |-> AuthToken,
   extensionId |-> "ext1"]

\* the frames of the other peer: no valid token among them
SquatterFrames == {f \in PeerFrames : f.type = "auth" => ~validToken(f)}

\* a connection attempt of a peer reaches the connection handler; the
\* socket object of a closed attempt stands for the peer's next one
Attempt(c) ==
  /\ wss = "listening"
  /\ rs[c] \in {"NEW", "CLOSED"}
  /\ OnConnection(c)
  /\ UNCHANGED <<mcp, ext, wss, pending, timers, nconns, nextId, settled,
                 authOk>>

\* ws.onopen of the holder: it sends its token, which the bridge handles
HolderAuthenticates(c) == Recv(c, HolderAuth)

\* the other peer sends a frame, which the bridge handles
SquatterSends(f) == Recv(Squatter, f)

RetryNext ==
  \/ Start
  \/ Attempt(Squatter)
  \/ \E c \in HolderConns : Attempt(c)
  \/ \E c \in HolderConns : HolderAuthenticates(c)
  \/ \E f \in SquatterFrames : SquatterSends(f)
  \/ \E c \in HolderConns : SocketClosed(c)
  \/ \E call \in Calls : SendCommand(call.command, call.params)
  \/ \E id \in Ids : Timeout(id)

\* the bridge is started; the holder keeps attempting (setTimeout(connect,
\* delay) of scheduleReconnect fires), sends its token on every socket that
\* opens (ws.onopen), and the close of a refused socket completes
RetrySpec ==
  /\ Init
  /\ [][RetryNext]_vars
  /\ WF_vars(Start)
  /\ WF_vars(\E c \in HolderConns : Attempt(c))
  /\ \A c \in HolderConns : WF_vars(HolderAuthenticates(c))
  /\ \A c \in HolderConns : WF_vars(SocketClosed(c))

\* ------------------------------------------------------ extension: handlers
bridgeVars ==
  <<wss, client, isAuthenticated, pending, timers, rs, accepted, rx, nconns,
    nextId, settled, authOk, last>>

\* the script is loaded: loadConfig().then(() => connect()); the stored
\* token is a string or missing, the stored port makes a valid url or not
Boot(tok, port) ==
  /\ ext.op = "init"
  /\ ext' = connect([Begin(ext, "boot", Null, NoFrame)
                       EXCEPT !.authToken = tok, !.port = port])
  /\ UNCHANGED <<bridgeVars, mcp>>

\* ws.onopen
SockOpen(s) ==
  /\ ext.readyState[s] = "CONNECTING"
  /\ LET e1 == [Begin(ext, "open", s, NoFrame)
                  EXCEPT !.readyState[s] = "OPEN", !.rx = @ \cup {s},
                         !.reconnectAttempts = 0]
         e2 == IF e1.authToken # "null"
               THEN Emit(e1, WsSend(e1.ws, [type |-> "auth",
                                            token |-> e1.authToken]))
               ELSE e1 IN
     ext' = updateBadge(startKeepalive(e2), "connected")
  /\ UNCHANGED <<bridgeVars, mcp>>

\* ws.onclose: the connection failed, the server closed it, or a close()
\* of the extension has completed
SockClosed(s) ==
  /\ ext.readyState[s] \in {"CONNECTING", "OPEN", "CLOSING"}
  /\ ext.readyState[s] = "CONNECTING" => ext.reconnectAttempts < MaxFails
  /\ LET e1 == [Begin(ext, "close", s, NoFrame)
                  EXCEPT !.readyState[s] = "CLOSED", !.rx = @ \ {s},
                         !.isAuthenticated = FALSE] IN
     ext' = scheduleReconnect(updateBadge(stopKeepalive(e1), "disconnected"))
  /\ UNCHANGED <<bridgeVars, mcp>>

\* the timer of scheduleReconnect fires: connect()
ReconnectFires ==
  /\ ext.reconnectTimer
  /\ WsIsLive(ext) \/ ext.port = "invalid" \/ FreeSocks(ext) # {}
  /\ (~WsIsLive(ext) /\ ext.port = "invalid") =>
       ext.reconnectAttempts < MaxFails
  /\ ext' = connect([Begin(ext, "reconnect", Null, NoFrame)
                       EXCEPT !.reconnectTimer = FALSE])
  /\ UNCHANGED <<bridgeVars, mcp>>

\* the interval of startKeepalive fires
KeepaliveTick ==
  /\ ext.keepaliveTimer
  /\ LET e1 == Begin(ext, "keepalive", Null, NoFrame) IN
     ext' = IF e1.ws # Null /\ e1.readyState[e1.ws] = "OPEN"
            THEN Emit(e1, WsSend(e1.ws, [type |-> "command",
                                         command |-> "ping"]))
            ELSE e1
  /\ UNCHANGED <<bridgeVars, mcp>>

\* ws.onmessage of socket s: handleMessage(event.data)
Message(s, f) ==
  /\ s \in ext.rx
  /\ ext.job = NoJob
  /\ (f.type = "auth_result" /\ f.success) =>
       Len(ext.allowedOrigins) + Len(f.allowedOrigins) <= MaxOrigins
  /\ ext' = handleMessage(Begin(ext, "message", s, f), s, f)
  /\ UNCHANGED <<bridgeVars, mcp>>

\* an await of executeCommand completes
CommandStep(outcome) ==
  /\ ext.job # NoJob
  /\ ext.job.stage = "tab" => outcome \in {"ok", "notab"}
  /\ ext.job.stage = "load" => outcome \in {"ok", "timeout"}
  /\ ext' = executeCommand(Begin(ext, "command", Null, NoFrame), outcome)
  /\ UNCHANGED <<bridgeVars, mcp>>

\* the popup's set_config, after saveConfig(token, port): ws?.close();
\* reconnectAttempts = 0; connect()
SetConfig(tok, port) ==
  /\ ext.op # "init"
  /\ port = "invalid" \/ FreeSocks(ext) # {}
  /\ LET e1 == [Begin(ext, "set_config", Null, NoFrame)
                  EXCEPT !.authToken = tok, !.port = port,
                         !.reconnectAttempts = 0]
         e2 == IF WsIsLive(e1)
               THEN [e1 EXCEPT !.readyState[e1.ws] = "CLOSING"] ELSE e1 IN
     ext' = connect(e2)
  /\ UNCHANGED <<bridgeVars, mcp>>

ExtNext ==
  \/ \E tok \in {"null", "tok"}, port \in {"valid", "invalid"} :
       Boot(tok, port)
  \/ \E s \in Socks : SockOpen(s)
  \/ \E s \in Socks : SockClosed(s)
  \/ ReconnectFires
  \/ KeepaliveTick
  \/ \E s \in Socks, f \in ServerFrames : Message(s, f)
  \/ \E outcome \in {"ok", "notab", "timeout"} : CommandStep(outcome)
  \/ \E port \in {"valid", "invalid"} : SetConfig("tok", port)

ExtSpec == Init /\ [][ExtNext]_vars

ExtTypeOK ==
  /\ ext.ws \in Socks \cup {Null}
  /\ ext.readyState \in [Socks -> {"NEW", "CONNECTING", "OPEN", "CLOSING", "CLOSED"}]
  /\ ext.reconnectAttempts \in 0..MAX_RECONNECT_ATTEMPTS
  /\ Len(ext.allowedOrigins) <= MaxOrigins
  /\ ext.isAuthenticated \in BOOLEAN

\* -------------------------------------------------- server: session calls
\* everything but the server process
nonMcpVars == <<bridgeVars, ext>>

Called(m, op, arg, ret) == [m EXCEPT !.op = op, !.arg = arg, !.ret = ret]

\* time passes between two calls
Tick ==
  /\ mcp.now < MaxNow
  /\ mcp' = Called([mcp EXCEPT !.now = @ + 1], "tick", Void, Void)
  /\ UNCHANGED nonMcpVars

\* session.start(name)
SessionStart(name) ==
  /\ mcp' = Called([mcp EXCEPT !.session = start(@, name, mcp.now)],
                   "start", [name |-> name], Void)
  /\ UNCHANGED nonMcpVars

\* session.addAssertion(passed, message)
SessionAdd(passed, message) ==
  /\ Len(mcp.session.assertions) < MaxAsserts
  /\ mcp' = Called([mcp EXCEPT
                      !.session = addAssertion(@, passed, message, mcp.now),
                      !.idleAdds =
                        IF active(mcp.session) THEN @
                        ELSE Append(@, [passed |-> passed,
                                        message |-> message,
                                        timestamp |-> mcp.now])],
                   "addAssertion",
                   [passed |-> passed, message |-> message], Void)
  /\ UNCHANGED nonMcpVars

\* session.end(): the summary is built, the fields are reset, the summary
\* is returned
SessionEnd ==
  /\ mcp' = Called([mcp EXCEPT !.session = NewSession, !.idleAdds = <<>>],
                   "end", Void,
                   Summary(mcp.session, mcp.now))
  /\ UNCHANGED nonMcpVars

SessionNext ==
  \/ Tick
  \/ \E name \in SessionNames : SessionStart(name)
  \/ \E passed \in BOOLEAN, message \in Messages : SessionAdd(passed, message)
  \/ SessionEnd

SessionSpec == Init /\ [][SessionNext]_vars

SessionTypeOK ==
  /\ mcp.session.name \in {NoName} \cup {Name(x) : x \in SessionNames}
  /\ mcp.session.startedAt \in {Null} \cup Times
  /\ Len(mcp.session.assertions) <= MaxAsserts
  /\ mcp.now \in Times

\* --------------------------------------------------- server: baseline store
\* a baseline name is a string: here a sequence of characters
Dots == <<".", ".">>
StoreNames ==
  {<<"a">>, <<"a", ".", "b">>, Dots, <<"a", "/", "b">>, <<"a", "\\">>,
   <<".", ".", "/", "a">>}

\* a buffer holds a PNG image of w by h pixels (one colour per pixel), or
\* bytes that are no PNG (w = 0)
Png(w, h, data) == [k |-> "buffer", w |-> w, h |-> h, data |-> data]
NotPng == Png(0, 0, <<>>)
Buffers == {Png(1, 1, <<0>>), Png(1, 1, <<1>>), Png(2, 1, <<0, 0>>), NotPng}

\* null, where a Buffer is expected
NullValue == [k |-> "null"]

\* a value returned by an async method
Ok(v) == [k |-> "ok", value |-> v]

\* name.includes(sub), sub not empty
Includes(name, sub) ==
  \E i \in 1..(Len(name) - Len(sub) + 1) :
    SubSeq(name, i, i + Len(sub) - 1) = sub

ErrInvalidName == "Invalid baseline name"

\* mutant of validateName: only the slash is refused
validateNameSlashOnly(name) == Includes(name, <<"/">>)

\* validateName(name) throws
validateName(name) ==
  \/ Includes(name, Dots)
  \/ Includes(name, <<"/">>)
  \/ Includes(name, <<"\\">>)

\* the segments of a path, split at the slashes; cur is the segment so far
RECURSIVE Segments(_, _)

Segments(chars, cur) ==
  IF chars = <<>> THEN <<cur>>
  ELSE IF Head(chars) = "/" THEN <<cur>> \o Segments(Tail(chars), <<>>)
  ELSE Segments(Tail(chars), Append(cur, Head(chars)))

\* path.normalize on segments: empty and '.' segments go, '..' removes the
\* segment before it
RECURSIVE Normalize(_, _)

Normalize(segs, done) ==
  IF segs = <<>> THEN done
  ELSE IF Head(segs) \in {<<>>, <<".">>} THEN Normalize(Tail(segs), done)
  ELSE IF Head(segs) = Dots
  THEN Normalize(Tail(segs),
                 IF done = <<>> THEN <<Dots>>
                 ELSE SubSeq(done, 1, Len(done) - 1))
  ELSE Normalize(Tail(segs), Append(done, Head(segs)))

\* path.join(dir, file), dir a list of segments
join(dir, file) == Normalize(dir \o Segments(file, <<>>), <<>>)

\* this.baseDir
BaseDir == <<<<"baselines">>>>

\* mutant of BaselinePath: one file for every name
BaselinePathShared(baseDir, name) == join(baseDir, <<"baseline", ".png">>)

\* join(this.baseDir, `${name}.png`)
BaselinePath(baseDir, name) == join(baseDir, name \o <<".png">>)

\* join(this.baseDir, 'diffs', `${name}.diff.png`)
DiffPath(baseDir, name) ==
  join(baseDir \o <<<<"diffs">>>>, name \o <<".diff", ".png">>)

\* writeFileSync(filePath, pngBuffer)
writeFileSync(files, filePath, buf) ==
  [f \in DOMAIN files \cup {filePath} |->
     IF f = filePath THEN buf ELSE files[f]]

existsSync(files, filePath) == filePath \in DOMAIN files

\* the methods of BaselineStore on the files of the disk: the files after
\* the call and what the call returns or throws
After(files, ret) == [files |-> files, ret |-> ret]

save(files, name, pngBuffer) ==
  IF validateName(name) THEN After(files, Throw(ErrInvalidName))
  ELSE LET filePath == BaselinePath(BaseDir, name) IN
       After(writeFileSync(files, filePath, pngBuffer), Ok(filePath))

saveDiff(files, name, pngBuffer) ==
  IF validateName(name) THEN After(files, Throw(ErrInvalidName))
  ELSE LET filePath == DiffPath(BaseDir, name) IN
       After(writeFileSync(files, filePath, pngBuffer), Ok(filePath))

load(files, name) ==
  IF validateName(name) THEN After(files, Throw(ErrInvalidName))
  ELSE LET filePath == BaselinePath(BaseDir, name) IN
       IF ~existsSync(files, filePath) THEN After(files, Ok(NullValue))
       ELSE After(files, Ok(files[filePath]))

exists(files, name) ==
  IF validateName(name) THEN After(files, Throw(ErrInvalidName))
  ELSE After(files, Ok(existsSync(files, BaselinePath(BaseDir, name))))

\* a call of a method of the store; saved is history: the names save() has
\* written a baseline for
StoreCall(op, name, buf, r) ==
  /\ mcp' = Called([mcp EXCEPT
                      !.files = r.files,
                      !.saved = IF op = "save" /\ r.ret.k = "ok"
                                THEN @ \cup {name} ELSE @],
                   op, [name |-> name, buffer |-> buf], r.ret)
  /\ UNCHANGED nonMcpVars

StoreSave(name, buf) == StoreCall("save", name, buf, save(mcp.files, name, buf))

StoreSaveDiff(name, buf) ==
  StoreCall("saveDiff", name, buf, saveDiff(mcp.files, name, buf))

StoreLoad(name) == StoreCall("load", name, NullValue, load(mcp.files, name))

StoreExists(name) ==
  StoreCall("exists", name, NullValue, exists(mcp.files, name))

\* the buffers the store's methods are called with directly
StoreBuffers == {Png(1, 1, <<0>>), NotPng}

StoreNext ==
  \/ \E name \in StoreNames, buf \in StoreBuffers : StoreSave(name, buf)
  \/ \E name \in StoreNames, buf \in StoreBuffers : StoreSaveDiff(name, buf)
  \/ \E name \in StoreNames : StoreLoad(name)
  \/ \E name \in StoreNames : StoreExists(name)

StoreSpec == Init /\ [][StoreNext]_vars

StoreTypeOK ==
  /\ \A f \in DOMAIN mcp.files : mcp.files[f] \in Buffers
  /\ mcp.saved \subseteq StoreNames

\* ------------------------------------------------------ server: tool calls
\* a tool handler waits for bridge.sendCommand: the call in progress, the
\* command being "sent" (dispatched, or refused by the bridge at once) or
\* "answered" (the extension has run it, its data is on the way)
NoCall == [stage |-> "none"]

InFlight(tool, a) ==
  [stage |-> "sent", tool |-> tool, a |-> a, data |-> Void]

\* the errors sendCommand rejects with
BridgeErrors == {ErrNotConnected, ErrTimeout}

\* a tool is called: its handler runs up to await bridge.sendCommand(...)
ToolCalled(tool, a) ==
  /\ mcp.call = NoCall
  /\ mcp' = Called([mcp EXCEPT !.call = InFlight(tool, a)], "call",
                   [tool |-> tool], Void)
  /\ UNCHANGED nonMcpVars

\* the handler's promise settles: the call is over, the tool has returned
\* r.ret, or has thrown it; command tells how sendCommand settled
Returned(m, command, r) ==
  Called([m EXCEPT !.call = NoCall, !.session = r.session,
                   !.files = r.files],
         "return",
         [tool |-> m.call.tool, a |-> m.call.a, command |-> command], r.ret)

\* what a handler did: the session and the files after it, and its result
Outcome(session, files, ret) ==
  [session |-> session, files |-> files, ret |-> ret]

\* an error thrown by the handler, nothing done
Thrown(m, msg) == Outcome(m.session, m.files, Throw(msg))

\* ------------------------------------------------- server: visual compare
\* a base64 text and the bytes it encodes
Base64(buf) == [k |-> "base64", of |-> buf]
FromBase64(text) == text.of

ErrNotPng == "Invalid file signature"

\* pixelmatch(img1.data, img2.data, diff.data, ...): the pixels that differ
DiffPixels(d1, d2) == {i \in 1..Len(d1) : d1[i] # d2[i]}

\* the diff image: a differing pixel is drawn in the diff colour
DiffColour == 9
DiffImage(img1, img2) ==
  Png(img1.w, img1.h,
      [i \in 1..Len(img1.data) |->
         IF img1.data[i] # img2.data[i] THEN DiffColour ELSE img1.data[i]])

\* compareScreenshots(actual, expected): PNG.sync.read throws on bytes
\* that are no PNG
compareScreenshots(actual, expected) ==
  IF expected = NotPng \/ actual = NotPng THEN Throw(ErrNotPng)
  ELSE IF expected.w # actual.w \/ expected.h # actual.h
  THEN Ok([match |-> FALSE, diffPixels |-> -1,
           totalPixels |-> expected.w * expected.h,
           diffPercentage |-> 100, hasDiffImage |-> FALSE,
           diffImageBase64 |-> Base64(NotPng)])
  ELSE LET diffPixels == Cardinality(DiffPixels(expected.data, actual.data))
           totalPixels == expected.w * expected.h
       IN Ok([match |-> diffPixels = 0, diffPixels |-> diffPixels,
              totalPixels |-> totalPixels,
              diffPercentage |-> (diffPixels * 100) \div totalPixels,
              hasDiffImage |-> TRUE,
              diffImageBase64 |-> Base64(DiffImage(expected, actual))])

\* mutant of FirstRun: every run is taken for the first
FirstRunAlways(baseline) == TRUE

\* !baseline
FirstRun(baseline) == baseline = NullValue

VisualMessage(name) == <<"Visual snapshot", name>>

\* test_visual_compare, from the screenshot's arrival on
visualCompare(m, name, screenshotResult) ==
  LET actual == FromBase64(screenshotResult.data)
      loaded == load(m.files, name)
  IN IF loaded.ret.k = "throw" THEN Thrown(m, loaded.ret.error)
     ELSE IF FirstRun(loaded.ret.value)
     THEN Outcome(m.session, save(m.files, name, actual).files,
                  Ok([firstRun |-> TRUE, baselineSaved |-> TRUE,
                      name |-> name]))
     ELSE LET result == compareScreenshots(actual, loaded.ret.value) IN
          IF result.k = "throw" THEN Thrown(m, result.error)
          ELSE LET r == result.value
                   files == IF ~r.match /\ r.hasDiffImage
                            THEN saveDiff(m.files, name,
                                          FromBase64(r.diffImageBase64)).files
                            ELSE m.files
               IN Outcome(addAssertion(m.session, r.match,
                                       VisualMessage(name), m.now),
                          files,
                          Ok([match |-> r.match, diffPixels |-> r.diffPixels,
                              diffPercentage |-> r.diffPercentage,
                              totalPixels |-> r.totalPixels, name |-> name]))

\* test_visual_update, from the screenshot's arrival on
visualUpdate(m, name, screenshotResult) ==
  LET saved == save(m.files, name, FromBase64(screenshotResult.data)) IN
  IF saved.ret.k = "throw" THEN Thrown(m, saved.ret.error)
  ELSE Outcome(m.session, saved.files,
               Ok([updated |-> TRUE, name |-> name,
                   filePath |-> saved.ret.value]))

\* the names the visual tools are called with
VisualNames == {<<"a">>, <<".", ".", "/", "a">>}

\* the extension answers the screenshot command: captureVisibleTab's PNG
ScreenshotTaken(buf) ==
  /\ mcp.call.stage = "sent"
  /\ mcp.call.tool \in {"test_visual_compare", "test_visual_update"}
  /\ mcp' = Called([mcp EXCEPT !.call.stage = "answered",
                               !.call.data = [data |-> Base64(buf)]],
                   "answer", Void, Void)
  /\ UNCHANGED nonMcpVars

\* the response arrives: sendCommand resolves and the handler goes on
VisualResumes ==
  /\ mcp.call.stage = "answered"
  /\ mcp.call.tool \in {"test_visual_compare", "test_visual_update"}
  /\ Len(mcp.session.assertions) < MaxAsserts
  /\ mcp' = Returned(mcp, "resolved",
               IF mcp.call.tool = "test_visual_compare"
               THEN visualCompare(mcp, mcp.call.a.name, mcp.call.data)
               ELSE visualUpdate(mcp, mcp.call.a.name, mcp.call.data))
  /\ UNCHANGED nonMcpVars

\* sendCommand rejects (not connected, timeout, disconnect, a failure
\* reported by the extension): these handlers have no catch
VisualFails(err) ==
  /\ mcp.call.stage \in {"sent", "answered"}
  /\ mcp.call.tool \in {"test_visual_compare", "test_visual_update"}
  /\ mcp' = Returned(mcp, "rejected", Thrown(mcp, err))
  /\ UNCHANGED nonMcpVars

VisualNext ==
  \/ \E name \in VisualNames : ToolCalled("test_visual_compare", [name |-> name])
  \/ \E name \in VisualNames : ToolCalled("test_visual_update", [name |-> name])
  \/ \E buf \in Buffers : ScreenshotTaken(buf)
  \/ VisualResumes
  \/ \E err \in BridgeErrors : VisualFails(err)

VisualSpec == Init /\ [][VisualNext]_vars

VisualTypeOK ==
  /\ \A f \in DOMAIN mcp.files : mcp.files[f].k = "buffer"
  /\ Len(mcp.session.assertions) <= MaxAsserts
  /\ mcp.call.stage \in {"none", "sent", "answered"}

\* ------------------------------------------------ server: assertion tools
\* undefined, where an object is expected
Undefined == [k |-> "undefined"]

\* text.trim(), the space being the only white space of the model
RECURSIVE TrimStart(_)

TrimStart(text) ==
  IF text # <<>> /\ Head(text) = " " THEN TrimStart(Tail(text)) ELSE text

RECURSIVE TrimEnd(_)

TrimEnd(text) ==
  IF text # <<>> /\ text[Len(text)] = " "
  THEN TrimEnd(SubSeq(text, 1, Len(text) - 1)) ELSE text

Trim(text) == TrimEnd(TrimStart(text))

\* new RegExp(expected).test(actual) for the patterns of the model: '(' is
\* no pattern, the others match themselves
RegExpTest(expected, actual) ==
  IF expected = <<"(">> THEN Throw("Invalid regular expression")
  ELSE Ok(Includes(actual, expected))

\* the comparison of the text and url tools: what passed is set to, or the
\* error thrown
CompareText(operator, actual, expected, trimmed) ==
  CASE operator = "contains" -> Ok(Includes(actual, expected))
    [] operator = "equals" ->
         Ok(IF trimmed THEN Trim(actual) = Trim(expected)
            ELSE actual = expected)
    [] operator = "matches" -> RegExpTest(expected, actual)

\* the comparison of the count tool
CompareCount(operator, actual, expected) ==
  CASE operator = "equals" -> actual = expected
    [] operator = "greaterThan" -> actual > expected
    [] operator = "lessThan" -> actual < expected
    [] operator = "atLeast" -> actual >= expected
    [] operator = "atMost" -> actual <= expected

\* op ?? dflt
OrDefault(op, dflt) == IF op = "undefined" THEN dflt ELSE op

\* the handler records the assertion and returns its result
Asserted(m, passed, message, result) ==
  Outcome(addAssertion(m.session, passed, message, m.now), m.files,
          Ok(result))

\* test_assert_element: outcome is what sendCommand('query') resolved
\* with, or the error it rejected with
assertElement(m, a, outcome) ==
  LET message == <<"Element", a.selector, a.state>> IN
  IF outcome.k = "ok"
  THEN LET result == outcome.value
           passed ==
             CASE a.state = "exists" -> result # NullValue
               [] a.state = "visible" ->
                    result.k = "object" /\ result.visible = TRUE
               [] a.state = "hidden" ->
                    result.k = "object" /\ result.visible = FALSE
               [] a.state = "not_exists" -> FALSE
       IN Asserted(m, passed, message,
                   [passed |-> passed, selector |-> a.selector,
                    state |-> a.state, actual |-> result])
  ELSE LET passed == a.state = "not_exists" \/ a.state = "hidden" IN
       Asserted(m, passed, message,
                [passed |-> passed, selector |-> a.selector,
                 state |-> a.state, actual |-> Undefined])

\* test_assert_text and test_assert_url: no catch, an error of sendCommand
\* or of RegExp leaves the handler
assertText(m, a, outcome, field, trimmed) ==
  IF outcome.k = "throw" THEN Thrown(m, outcome.error)
  ELSE LET result == outcome.value
           actual == IF result.k = "object" THEN result[field] ELSE <<>>
           operator == OrDefault(a.op, "contains")
           passed == CompareText(operator, actual, a.expected, trimmed)
       IN IF passed.k = "throw" THEN Thrown(m, passed.error)
          ELSE Asserted(m, passed.value, <<field, operator, a.expected>>,
                        [passed |-> passed.value, expected |-> a.expected,
                         actual |-> actual, op |-> operator])

\* test_assert_count
assertCount(m, a, outcome) ==
  IF outcome.k = "throw" THEN Thrown(m, outcome.error)
  ELSE LET result == outcome.value
           actual == IF result.k = "object" THEN result.total ELSE 0
           operator == OrDefault(a.op, "equals")
           passed == CompareCount(operator, actual, a.expected)
       IN Asserted(m, passed, <<"Count", operator, a.expected>>,
                   [passed |-> passed, selector |-> a.selector,
                    expected |-> a.expected, actual |-> actual,
                    op |-> operator])

\* the handler of an assertion tool from the settling of its command on
assertTool(m, outcome) ==
  CASE m.call.tool = "test_assert_element" ->
         assertElement(m, m.call.a, outcome)
    [] m.call.tool = "test_assert_text" ->
         assertText(m, m.call.a, outcome, "text", TRUE)
    [] m.call.tool = "test_assert_url" ->
         assertText(m, m.call.a, outcome, "url", FALSE)
    [] m.call.tool = "test_assert_count" ->
         assertCount(m, m.call.a, outcome)

AssertTools ==
  {"test_assert_element", "test_assert_text", "test_assert_url",
   "test_assert_count"}

\* the calls of the assertion tools
AssertCalls ==
  [tool : {"test_assert_element"},
   a : [selector : {"#x"},
        state : {"exists", "visible", "hidden", "not_exists"}]]
    \cup [tool : {"test_assert_text"},
          a : {[selector |-> "#x", expected |-> <<"a">>, op |-> "equals"],
               [selector |-> "#x", expected |-> <<"(">>, op |-> "matches"]}]
    \cup [tool : {"test_assert_url"},
          a : {[expected |-> <<"a">>, op |-> "undefined"],
               [expected |-> <<"a">>, op |-> "matches"]}]
    \cup [tool : {"test_assert_count"},
          a : {[selector |-> "#x", expected |-> 1, op |-> "undefined"],
               [selector |-> "#x", expected |-> 1, op |-> "atLeast"]}]

\* what the extension answers the read command of a tool with
ReadResults(tool) ==
  CASE tool = "test_assert_element" ->
         {[k |-> "object", visible |-> TRUE],
          [k |-> "object", visible |-> FALSE], Undefined}
    [] tool = "test_assert_text" ->
         {[k |-> "object", text |-> <<"a", " ">>],
          [k |-> "object", text |-> <<"b">>], Undefined}
    [] tool = "test_assert_url" ->
         {[k |-> "object", url |-> <<"b", "a">>],
          [k |-> "object", url |-> <<"b">>]}
    [] tool = "test_assert_count" ->
         {[k |-> "object", total |-> 0], [k |-> "object", total |-> 1],
          [k |-> "object", total |-> 2]}

\* the extension answers the read command
ReadAnswered ==
  /\ mcp.call.stage = "sent"
  /\ mcp.call.tool \in AssertTools
  /\ \E result \in ReadResults(mcp.call.tool) :
       mcp' = Called([mcp EXCEPT !.call.stage = "answered",
                                 !.call.data = result],
                     "answer", Void, Void)
  /\ UNCHANGED nonMcpVars

\* the response arrives: sendCommand resolves and the handler goes on
AssertResumes ==
  /\ mcp.call.stage = "answered"
  /\ mcp.call.tool \in AssertTools
  /\ Len(mcp.session.assertions) < MaxAsserts
  /\ mcp' = Returned(mcp, "resolved", assertTool(mcp, Ok(mcp.call.data)))
  /\ UNCHANGED nonMcpVars

\* sendCommand rejects
AssertFails(err) ==
  /\ mcp.call.stage \in {"sent", "answered"}
  /\ mcp.call.tool \in AssertTools
  /\ Len(mcp.session.assertions) < MaxAsserts
  /\ mcp' = Returned(mcp, "rejected", assertTool(mcp, Throw(err)))
  /\ UNCHANGED nonMcpVars

AssertNext ==
  \/ \E c \in AssertCalls : ToolCalled(c.tool, c.a)
  \/ ReadAnswered
  \/ AssertResumes
  \/ \E err \in BridgeErrors : AssertFails(err)

AssertSpec == Init /\ [][AssertNext]_vars

AssertTypeOK ==
  /\ Len(mcp.session.assertions) <= MaxAsserts
  /\ mcp.call.stage \in {"none", "sent", "answered"}
  /\ mcp.files = <<>>

\* -------------------------------------------------- server: network tools
\* requests captured at a time
MaxCaptured == 2

\* text.toUpperCase() for the method names of the model
ToUpperCase(text) ==
  CASE text \in {"get", "GET"} -> "GET"
    [] text \in {"post", "POST"} -> "POST"
    [] OTHER -> text

\* the requests chrome reports as completed
Details ==
  {[url |-> <<"a", "b">>, method |-> "POST", status |-> 200],
   [url |-> <<"b">>, method |-> "GET", status |-> 404]}

\* chrome.webRequest.onCompleted: the listener of the service worker
onCompleted(e, details) ==
  IF ~e.networkCaptureActive THEN e
  ELSE IF e.networkCapturePattern.given
            /\ ~RegExpTest(e.networkCapturePattern.v, details.url).value
  THEN e
  ELSE [e EXCEPT !.capturedRequests = Append(@, details)]

\* executeCommand: network_capture_start; the state after it and its
\* result, new RegExp throwing after the first two assignments
captureStart(e, params) ==
  LET on == [e EXCEPT !.networkCaptureActive = TRUE,
                      !.capturedRequests = <<>>]
      pattern == params.urlPattern
  IN IF pattern.given /\ pattern.v # <<>>
     THEN IF RegExpTest(pattern.v, <<>>).k = "throw"
          THEN [ext |-> on, ret |-> RegExpTest(pattern.v, <<>>)]
          ELSE [ext |-> [on EXCEPT !.networkCapturePattern = pattern],
                ret |-> Ok([k |-> "object", capturing |-> TRUE])]
     ELSE [ext |-> [on EXCEPT !.networkCapturePattern = Absent],
           ret |-> Ok([k |-> "object", capturing |-> TRUE])]

\* executeCommand: network_capture_stop
captureStop(e) ==
  [ext |-> [e EXCEPT !.networkCaptureActive = FALSE,
                     !.capturedRequests = <<>>,
                     !.networkCapturePattern = Absent],
   ret |-> Ok([k |-> "object", requests |-> e.capturedRequests])]

\* mutant of RequestMatches: the url alone decides
RequestMatchesUrlOnly(r, a) == Includes(r.url, a.url)

\* the test of requests.find(...): a method that is left out or empty, and
\* a status that is left out, are not compared
RequestMatches(r, a) ==
  /\ Includes(r.url, a.url)
  /\ ~(a.method.given /\ a.method.v # ""
         /\ ToUpperCase(r.method) # ToUpperCase(a.method.v))
  /\ ~(a.status.given /\ r.status # a.status.v)

\* requests.find(...): the first match, or undefined
Find(requests, a) ==
  LET hits == {i \in 1..Len(requests) : RequestMatches(requests[i], a)} IN
  IF hits = {} THEN Undefined ELSE requests[Min(hits)]

\* network_assert_request, from the settling of network_capture_stop on
networkAssert(m, a, outcome) ==
  IF outcome.k = "throw" THEN Thrown(m, outcome.error)
  ELSE LET captureResult == outcome.value
           requests == IF captureResult.k = "object"
                       THEN captureResult.requests ELSE <<>>
           match == Find(requests, a)
           passed == match # Undefined
       IN Asserted(m, passed, <<"Network request", a.method, a.url, a.status>>,
                   [passed |-> passed, url |-> a.url, method |-> a.method,
                    status |-> a.status, matchedRequest |-> match,
                    totalCaptured |-> Len(requests)])

\* network_capture_start and network_capture_stop return the result as is
networkTool(m, outcome) ==
  IF m.call.tool = "network_assert_request"
  THEN networkAssert(m, m.call.a, outcome)
  ELSE IF outcome.k = "throw" THEN Thrown(m, outcome.error)
  ELSE Outcome(m.session, m.files, outcome)

NetworkTools ==
  {"network_capture_start", "network_capture_stop", "network_assert_request"}

\* the calls of the network tools
NetworkCalls ==
  [tool : {"network_capture_start"},
   a : [urlPattern : {Absent, Opt(<<"a">>), Opt(<<"(">>)}]]
    \cup [tool : {"network_capture_stop"}, a : {Void}]
    \cup [tool : {"network_assert_request"},
          a : {[url |-> <<"a">>, method |-> Opt("post"), status |-> Absent],
               [url |-> <<"b">>, method |-> Opt("get"), status |-> Opt(200)],
               [url |-> <<"a">>, method |-> Opt(""), status |-> Absent]}]

\* a request completes in the browser
WebRequestCompleted(details) ==
  /\ Len(ext.capturedRequests) < MaxCaptured
  /\ ext' = onCompleted(ext, details)
  /\ mcp' = Called(mcp, "request", Void, Void)
  /\ UNCHANGED bridgeVars

\* the extension runs the command of the call in flight and answers
CaptureCommandRuns ==
  /\ mcp.call.stage = "sent"
  /\ mcp.call.tool \in NetworkTools
  /\ LET r == IF mcp.call.tool = "network_capture_start"
              THEN captureStart(ext, mcp.call.a)
              ELSE captureStop(ext)
     IN /\ ext' = r.ext
        /\ mcp' = Called([mcp EXCEPT !.call.stage = "answered",
                                     !.call.data = r.ret],
                         "answer", [tool |-> mcp.call.tool], Void)
  /\ UNCHANGED bridgeVars

\* the response arrives: sendCommand resolves, or rejects with the error
\* the extension reported, and the handler goes on
NetworkResumes ==
  /\ mcp.call.stage = "answered"
  /\ mcp.call.tool \in NetworkTools
  /\ Len(mcp.session.assertions) < MaxAsserts
  /\ mcp' = Returned(mcp,
                     IF mcp.call.data.k = "ok" THEN "resolved" ELSE "rejected",
                     networkTool(mcp, mcp.call.data))
  /\ UNCHANGED nonMcpVars

\* sendCommand rejects: not connected, or no response in time
NetworkFails(err) ==
  /\ mcp.call.stage \in {"sent", "answered"}
  /\ mcp.call.tool \in NetworkTools
  /\ mcp' = Returned(mcp, "rejected", networkTool(mcp, Throw(err)))
  /\ UNCHANGED nonMcpVars

NetworkNext ==
  \/ \E c \in NetworkCalls : ToolCalled(c.tool, c.a)
  \/ \E details \in Details : WebRequestCompleted(details)
  \/ CaptureCommandRuns
  \/ NetworkResumes
  \/ \E err \in BridgeErrors : NetworkFails(err)

NetworkSpec == Init /\ [][NetworkNext]_vars

NetworkTypeOK ==
  /\ ext.networkCaptureActive \in BOOLEAN
  /\ Len(ext.capturedRequests) <= MaxCaptured
  /\ \A i \in 1..Len(ext.capturedRequests) : ext.capturedRequests[i] \in Details
  /\ ext.networkCapturePattern \in {Absent, Opt(<<"a">>)}
  /\ Len(mcp.session.assertions) <= MaxAsserts

\* ------------------------------------------------- allowlist: isUrlAllowed
\* the entries an auth_result may carry: ACT_ALLOWED_ORIGINS split at the
\* commas and trimmed, so an empty item is the entry ""
OriginEntries == {"", "example.com", "notexample.com"}

\* the lists of entries one auth_result carries
OriginLists ==
  {<<>>} \cup {<<a>> : a \in OriginEntries}
         \cup {<<a, b>> : a \in OriginEntries, b \in OriginEntries}

\* an auth_result success is handled: the allowlist is extended
AllowlistExtended(more) ==
  /\ Len(ext.allowedOrigins) + Len(more) <= MaxOrigins
  /\ ext' = [Begin(ext, "auth_result", Null,
                   [type |-> "auth_result", success |-> TRUE,
                    allowedOrigins |-> more])
               EXCEPT !.allowedOrigins = ExtendOrigins(@, more)]
  /\ UNCHANGED <<bridgeVars, mcp>>

\* isUrlAllowed(url) is called and returns
UrlChecked(url) ==
  /\ ext' = Emit(Begin(ext, "isUrlAllowed", Null,
                       [type |-> "url", url |-> url]),
                 [k |-> "return", v |-> isUrlAllowed(ext, url)])
  /\ UNCHANGED <<bridgeVars, mcp>>

AllowlistNext ==
  \/ \E more \in OriginLists : AllowlistExtended(more)
  \/ \E url \in Urls : UrlChecked(url)

AllowlistSpec == Init /\ [][AllowlistNext]_vars


\* ---------------------------------------------------------------- claims
\* the positions of the effects of one kind in a handler's effects
Kinds(eff, k) == {j \in 1..Len(eff) : eff[j].k = k}

\* the terminal events of a dispatched command
TerminalEvents ==
  {[by |-> "response", ok |-> TRUE, val |-> "d1"],
   [by |-> "response", ok |-> FALSE, val |-> "boom"],
   [by |-> "response", ok |-> FALSE, val |-> ErrCommandFailed],
   [by |-> "timeout", ok |-> FALSE, val |-> ErrTimeout],
   [by |-> "close", ok |-> FALSE, val |-> ErrDisconnected],
   [by |-> "stop", ok |-> FALSE, val |-> ErrShutdown]}

\* C1: a dispatched command is either in the pending table with no terminal
\* event, or out of it with exactly one, which is a response, a timeout,
\* peer-disconnected or shutting-down; an id never dispatched is in neither.
\* While it is pending its timer is armed, so a terminal event is still due.
C1_SettledExactlyOnce ==
  /\ \A i \in Ids :
       IF i \in pending THEN i <= nextId /\ settled[i] = 0 /\ i \in timers
       ELSE settled[i] = (IF i <= nextId THEN 1 ELSE 0) /\ i \notin timers
  /\ \A j \in Kinds(last.eff, "settle") :
       /\ last.eff[j].id \notin pending
       /\ settled[last.eff[j].id] = 1
       /\ last.eff[j].how \in TerminalEvents

\* two commands were dispatched, one was settled before, and the close of
\* the peer's socket has just settled the other
C1_Witness ==
  /\ nextId >= 2
  /\ pending = {}
  /\ last.op = "close"
  /\ Cardinality(Kinds(last.eff, "settle")) = 1

\* C2 (as claimed): the close of the socket of any connection the bridge
\* accepted leaves no pending request, a null peer reference, a false
\* authenticated flag, and fires onDisconnect once.
C2_EveryAcceptedClose ==
  (last.op = "close" /\ last.frame.accepted) =>
    /\ pending = {}
    /\ client = Null
    /\ ~isAuthenticated
    /\ Cardinality(Kinds(last.eff, "onDisconnect")) = 1

Authenticated(c) == authOk[c] /\ rs[c] = "OPEN"

\* C4: at most one connection is in AUTHENTICATED.
C4_AtMostOneAuthenticated ==
  Cardinality({c \in Conns : Authenticated(c)}) <= 1

\* a connection is in AUTHENTICATED while another, which was answered success
\* too, has not yet seen its socket closed
C4_Witness ==
  \E a, b \in Conns :
    /\ Authenticated(a)
    /\ authOk[b]
    /\ rs[b] = "CLOSING"

\* C5: a connection arriving while the current client's socket is open is
\* closed with code 4001 and gets no handlers; the client, the authenticated
\* flag and the pending table are unchanged; the client is always a connection
\* that was accepted.
C5_SecondConnectionRefused ==
  [][/\ (last'.op = "connection" /\ client # Null /\ rs[client] = "OPEN")
         => /\ last'.eff = <<[k |-> "close", conn |-> last'.conn, code |-> 4001]>>
            /\ ~accepted'[last'.conn]
            /\ rs'[last'.conn] = "CLOSING"
            /\ rs'[client] = "OPEN"
            /\ UNCHANGED <<client, isAuthenticated, pending, timers, settled>>
     /\ client' # Null => accepted'[client']]_vars

\* a connection has just been refused while the authenticated peer had a
\* request pending
C5_Witness ==
  /\ last.op = "connection"
  /\ Kinds(last.eff, "close") # {}
  /\ connected
  /\ pending # {}
  /\ client # last.conn

\* C6: stop() rejects the pending requests with shutting-down before it
\* closes the peer and the listener; once it has run the pending table is
\* empty, every dispatched command has had its one terminal event, and no
\* frame that arrives settles anything.
C6_StopRejectsAll ==
  /\ wss = "closed" =>
       /\ pending = {}
       /\ timers = {}
       /\ \A i \in 1..nextId : settled[i] = 1
  /\ last.op = "stop" =>
       \A j \in Kinds(last.eff, "settle") :
         /\ last.eff[j].how = [by |-> "stop", ok |-> FALSE, val |-> ErrShutdown]
         /\ \A m \in 1..j : last.eff[m].k = "settle"
  /\ (wss = "closed" /\ last.op = "message") =>
       Kinds(last.eff, "settle") = {}

\* after stop() a response arrives for a command dispatched before it
C6_Witness ==
  /\ wss = "closed"
  /\ last.op = "message"
  /\ last.frame.type = "response"
  /\ last.frame.id \in 1..nextId

\* C7: the expiry of a timer removes its entry from the pending table and
\* rejects the caller with the timeout error; a response whose id is not in
\* the table (as after an expiry) settles nothing and changes no state.
C7_TimeoutThenLateResponse ==
  [][/\ last'.op = "timeout" =>
          \E i \in pending \cap timers :
            /\ pending' = pending \ {i}
            /\ timers' = timers \ {i}
            /\ settled' = [settled EXCEPT ![i] = 1]
            /\ last'.eff = <<[k |-> "settle", id |-> i,
                              how |-> [by |-> "timeout", ok |-> FALSE,
                                       val |-> ErrTimeout]]>>
     /\ (last'.op = "message" /\ last'.frame.type = "response"
          /\ last'.frame.id \notin pending)
         => /\ last'.eff = <<>>
            /\ UNCHANGED <<wss, client, isAuthenticated, pending, timers, rs,
                           accepted, rx, nconns, nextId, settled, authOk>>]_vars

\* a timer has just expired while the peer that was sent the command can
\* still answer it
C7_Witness ==
  /\ last.op = "timeout"
  /\ connected
  /\ rx[client]

\* C8: a response whose id is in the pending table removes that entry alone
\* and settles that call: resolved with the frame's data when success is
\* true, rejected with the peer's error message (or 'Command failed' when the
\* frame has none) when it is false.
C8_ResponseSettlesItsCall ==
  [][(last'.op = "message" /\ last'.frame.type = "response"
       /\ last'.frame.id \in pending)
      => LET f == last'.frame IN
         /\ pending' = pending \ {f.id}
         /\ timers' = timers \ {f.id}
         /\ settled' = [settled EXCEPT ![f.id] = 1]
         /\ last'.eff =
              <<[k |-> "settle", id |-> f.id,
                 how |-> IF f.success
                         THEN [by |-> "response", ok |-> TRUE, val |-> f.data]
                         ELSE [by |-> "response", ok |-> FALSE,
                               val |-> IF f.error = "none"
                                       THEN ErrCommandFailed ELSE f.error]]>>]_vars

\* the second command is rejected with the peer's message while the first is
\* still pending
C8_Witness ==
  /\ last.op = "message"
  /\ last.frame.type = "response"
  /\ last.frame.id = 2
  /\ ~last.frame.success
  /\ Kinds(last.eff, "settle") = {1}
  /\ 1 \in pending

\* the reply to an auth frame: success exactly for a string equal to the
\* token, then with the seeded origins and an onConnect
AuthAnswered ==
  LET f == last.frame
      ok == f.tokenIsString /\ f.token = AuthToken IN
  /\ Len(last.eff) = 2
  /\ last.eff[1].k = "send"
  /\ last.eff[1].to = last.conn
  /\ last.eff[1].frame.type = "auth_result"
  /\ last.eff[1].frame.success = ok
  /\ ok => /\ last.eff[1].frame.allowedOrigins = SeededOrigins
           /\ last.eff[2] = [k |-> "onConnect"]
           /\ isAuthenticated
  /\ ~ok => last.eff[2].k = "audit"

\* C9 (as claimed): an auth frame is answered success exactly when its token
\* is a string equal to the bridge's token, and then connected is true.
C9_AuthSuccessConnects ==
  (last.op = "message" /\ last.frame.type = "auth") =>
    /\ AuthAnswered
    /\ (last.frame.tokenIsString /\ last.frame.token = AuthToken) => connected

\* C9 (amended): an auth frame is answered success exactly when its token is
\* a string equal to the bridge's token; then the reply carries the seeded
\* origins, the authenticated flag is set and onConnect fires, and connected
\* is true if the frame came from the current client with its socket open.
C9_AuthAnswer ==
  (last.op = "message" /\ last.frame.type = "auth") =>
    /\ AuthAnswered
    /\ (last.frame.tokenIsString /\ last.frame.token = AuthToken
         /\ client = last.conn /\ rs[client] = "OPEN") => connected

\* the current client has just presented the token and connected is true
C9_Witness ==
  /\ last.op = "message"
  /\ last.frame.type = "auth"
  /\ last.frame.token = AuthToken
  /\ last.frame.tokenIsString
  /\ last.eff[1].frame.success
  /\ client = last.conn
  /\ connected

\* C10 (as claimed): after an auth_result failure the bridge has written an
\* auth_failed record, has not closed the connection, and connected is false
\* for that peer.
C10_FailedAuthBlocksCommands ==
  (last.op = "message" /\ last.frame.type = "auth"
    /\ ~last.eff[1].frame.success) =>
    /\ \E j \in Kinds(last.eff, "audit") : last.eff[j].action = "auth_failed"
    /\ Kinds(last.eff, "close") = {}
    /\ client = last.conn => ~connected

\* C11 (as claimed): sendCommand("navigate", {url}) with a url that no
\* allowlist of the system allows (the bridge's seeded origins together with
\* the loopback seeds) writes no command frame and adds no pending entry.
C11_NavigateRejectedLocally ==
  [][(last'.op = "sendCommand" /\ last'.frame.command = "navigate"
       /\ ~isUrlAllowedBy(LoopbackSeeds \o SeededOrigins,
                          last'.frame.params.text))
      => /\ Kinds(last'.eff, "send") = {}
         /\ pending' = pending]_vars

\* C13 (as claimed): a frame other than auth from a connection that has not
\* been answered auth_result success has no effect: no reply is written,
\* nothing is settled and the bridge's state does not change.
C13_UnauthenticatedFramesIgnored ==
  [][(last'.op = "message" /\ ~authOk[last'.conn]
       /\ last'.frame.type # "auth")
      => /\ last'.eff = <<>>
         /\ UNCHANGED <<client, isAuthenticated, pending, timers, settled>>]_vars

\* C14: a ping from a connection in AUTHENTICATED is answered, on that
\* connection, with a success response carrying the ping's id and the pong
\* data, and changes neither the pending table nor the authentication state.
C14_PingAnswered ==
  [][(last'.op = "message" /\ last'.frame.type = "command"
       /\ last'.frame.command = "ping" /\ Authenticated(last'.conn))
      => /\ last'.eff =
              <<[k |-> "send", to |-> last'.conn, open |-> TRUE,
                 frame |-> [id |-> last'.frame.id, type |-> "response",
                            success |-> TRUE, data |-> "pong"]]>>
         /\ UNCHANGED <<client, isAuthenticated, authOk, pending, timers,
                        settled, rs>>]_vars

\* the authenticated peer has just been answered a ping while a command it
\* was sent is pending
C14_Witness ==
  /\ last.op = "message"
  /\ last.frame.type = "command"
  /\ last.frame.command = "ping"
  /\ Authenticated(last.conn)
  /\ Kinds(last.eff, "send") = {1}
  /\ pending # {}

\* the params of an audit record for a call's params: a string longer than
\* TruncLimit is cut to TruncLimit characters and the marker
Sanitized(a, p) ==
  IF p.isString /\ p.len > TruncLimit
  THEN a = [isString |-> TRUE, text |-> p.text,
            len |-> TruncLimit + TruncMarkerLen, cut |-> TRUE]
  ELSE a = p

\* C15: a command frame is written only by sendCommand, right after the
\* audit call for that command's name and its sanitized params; a dispatch
\* that fails with not-connected writes no frame; a failed handshake makes
\* the audit call for auth_failed.
C15_AuditBeforeSend ==
  /\ \A j \in Kinds(last.eff, "send") :
       last.eff[j].frame.type = "command" =>
         /\ last.op = "sendCommand"
         /\ j > 1
         /\ last.eff[j - 1].k = "audit"
         /\ last.eff[j - 1].action = last.eff[j].frame.command
         /\ Sanitized(last.eff[j - 1].params, last.eff[j].frame.params)
  /\ (last.op = "sendCommand" /\ Kinds(last.eff, "throw") # {}) =>
       Kinds(last.eff, "send") = {}
  /\ (last.op = "message" /\ last.frame.type = "auth"
        /\ ~last.eff[1].frame.success) =>
       \E j \in Kinds(last.eff, "audit") : last.eff[j].action = "auth_failed"

\* a command whose url is longer than TruncLimit has just been written to
\* the peer
C15_Witness ==
  /\ last.op = "sendCommand"
  /\ Kinds(last.eff, "send") # {}
  /\ last.frame.params.len > TruncLimit

C12_NavigationAllowlisted ==
  [][/\ \A j \in Kinds(ext'.eff, "tabsUpdate") :
          isUrlAllowedBy(ext.allowedOrigins, ext'.eff[j].url)
     /\ ext'.tabUrl # ext.tabUrl =>
          isUrlAllowedBy(ext.allowedOrigins, ext'.tabUrl)
     /\ (ext'.op = "command" /\ ext.job.command = "navigate"
          /\ ~isUrlAllowedBy(ext.allowedOrigins, ext.job.url))
         => /\ ext'.tabUrl = ext.tabUrl
            /\ Kinds(ext'.eff, "tabsUpdate") = {}
            /\ ext'.job = NoJob
            /\ \A j \in Kinds(ext'.eff, "send") :
                 /\ ext'.eff[j].frame.id = ext.job.id
                 /\ ~ext'.eff[j].frame.success
            /\ (ext.ws # Null /\ ext.readyState[ext.ws] = "OPEN")
                 => Kinds(ext'.eff, "send") # {}]_vars

\* after a handshake a navigate command has just been refused for its URL
C12_Witness ==
  /\ ext.op = "command"
  /\ ext.isAuthenticated
  /\ \E j \in Kinds(ext.eff, "send") :
       ext.eff[j].frame.error = "URL not in allowlist"

\* C17: the allowlist only grows at its end, and it changes only in the
\* handler of an auth_result with success true.
C17_AllowlistOnlyGrows ==
  [][/\ Len(ext'.allowedOrigins) >= Len(ext.allowedOrigins)
     /\ SubSeq(ext'.allowedOrigins, 1, Len(ext.allowedOrigins))
          = ext.allowedOrigins
     /\ ext'.allowedOrigins # ext.allowedOrigins =>
          /\ ext'.op = "message"
          /\ ext'.frame.type = "auth_result"
          /\ ext'.frame.success]_vars

\* the allowlist was extended by a handshake, the socket was lost, and the
\* extension is connecting again
C17_Witness ==
  /\ Len(ext.allowedOrigins) > Len(LoopbackSeeds)
  /\ ext.op = "reconnect"
  /\ ext.ws # Null
  /\ ext.readyState[ext.ws] = "CONNECTING"

\* C18: the delay of a reconnection scheduled when k attempts were made in
\* a row is min(1000 * 2^k, 30000) ms (past k = 20 the product is above
\* the cap whatever k is), and the count of attempts is then k + 1.
C18_BackoffDelay ==
  \A j \in Kinds(ext.eff, "setTimeout") :
    LET k == ext.eff[j].attempt
        product == 1000 * (2 ^ (IF k < 20 THEN k ELSE 20)) IN
    /\ ext.eff[j].delay = IF product < 30000 THEN product ELSE 30000
    /\ ext.reconnectAttempts = k + 1
    /\ ext.reconnectTimer

\* a reconnection has just been scheduled at the cap
C18_Witness ==
  \E j \in Kinds(ext.eff, "setTimeout") : ext.eff[j].attempt >= 5

\* an auth_result with success true has just been handled
AuthSucceeded(e) ==
  e.op = "message" /\ e.frame.type = "auth_result" /\ e.frame.success

\* C19 (as claimed): no reconnection is scheduled once 50 were made in a
\* row; the count of attempts is zero after an auth_result with success
\* true, and it goes down only then (or when the user sets a new
\* configuration), so that connections that never authenticate use it up.
C19_AttemptsResetOnAuthOnly ==
  [][/\ \A j \in Kinds(ext'.eff, "setTimeout") :
          ext'.eff[j].attempt < MAX_RECONNECT_ATTEMPTS
     /\ AuthSucceeded(ext') => ext'.reconnectAttempts = 0
     /\ ext'.reconnectAttempts < ext.reconnectAttempts =>
          AuthSucceeded(ext') \/ ext'.op = "set_config"]_vars

\* C20 (as claimed): while the current socket is one that was answered
\* auth_result failure, no handler writes a frame to it.
C20_SilentAfterAuthFailure ==
  [][ext.refused =>
       \A j \in Kinds(ext'.eff, "send") : ext'.eff[j].to # ext.ws]_vars

\* C21: end() returns a summary over exactly the assertions added since
\* the last start() or end(), in insertion order (addAssertion appends to
\* the buffer, start() and end() empty it, end() returns the buffer), with
\* total = passed_count + failed_count and passed true iff failed_count = 0;
\* after end() the session is idle with an empty buffer.
C21_EndSummarises ==
  [][/\ mcp'.op = "addAssertion" =>
          mcp'.session.assertions =
            mcp.session.assertions
              \o <<[passed |-> mcp'.arg.passed, message |-> mcp'.arg.message,
                    timestamp |-> mcp.now]>>
     /\ mcp'.op = "start" => mcp'.session.assertions = <<>>
     /\ mcp'.op = "end" =>
          LET r == mcp'.ret
              b == mcp.session.assertions
              failed == {i \in 1..Len(b) : ~b[i].passed}
          IN /\ r.assertions = b
             /\ r.total = Len(b)
             /\ r.failed_count = Cardinality(failed)
             /\ r.total = r.passed_count + r.failed_count
             /\ r.passed = (r.failed_count = 0)
             /\ ~active(mcp'.session)
             /\ mcp'.session.assertions = <<>>]_vars

\* start("s"); add(true, "a"); add(false, "b"); end() has just returned
C21_Witness ==
  /\ mcp.op = "end"
  /\ mcp.ret.name = "s"
  /\ mcp.ret.total = 2
  /\ mcp.ret.passed_count = 1
  /\ mcp.ret.failed_count = 1
  /\ ~mcp.ret.passed
  /\ mcp.ret.assertions[1].passed
  /\ mcp.ret.assertions[1].message = "a"

\* C22: from any state of the session start(x) makes it active under the
\* name x with an empty buffer, and end() called right after start(x)
\* returns {name: x, total: 0, passed: true}.
C22_StartResets ==
  [][/\ mcp'.op = "start" =>
          /\ active(mcp'.session)
          /\ mcp'.session.name = Name(mcp'.arg.name)
          /\ mcp'.session.assertions = <<>>
     /\ (mcp.op = "start" /\ mcp'.op = "end") =>
          /\ mcp'.ret.name = mcp.arg.name
          /\ mcp'.ret.total = 0
          /\ mcp'.ret.passed]_vars

\* start("s") has just been called on an idle session that had buffered an
\* assertion
C22_Witness ==
  /\ mcp.op = "start"
  /\ mcp.idleAdds # <<>>
  /\ mcp.session.name = Name("s")
  /\ mcp.session.assertions = <<>>

\* C23 (as claimed): an assertion added while the session is idle is in
\* the summary of the next end(), and that summary is named 'unnamed'.
C23_IdleAddsInNextEnd ==
  [][(mcp'.op = "end" /\ mcp.idleAdds # <<>>) =>
        /\ mcp'.ret.name = "unnamed"
        /\ \A i \in 1..Len(mcp.idleAdds) :
             \E j \in 1..Len(mcp'.ret.assertions) :
               mcp'.ret.assertions[j] = mcp.idleAdds[i]]_vars

\* C23 (amended): addAssertion on an idle session appends to the buffer,
\* and an end() called while the session is still idle, no start() having
\* come in between, returns a summary named 'unnamed' with exactly the
\* assertions added since the last end().
C23_IdleAddsInEndWhileIdle ==
  [][/\ (mcp'.op = "addAssertion" /\ ~active(mcp.session)) =>
          /\ ~active(mcp'.session)
          /\ Len(mcp'.session.assertions) = Len(mcp.session.assertions) + 1
     /\ (mcp'.op = "end" /\ ~active(mcp.session)) =>
          /\ mcp'.ret.name = "unnamed"
          /\ mcp'.ret.assertions = mcp.idleAdds]_vars

\* end() has returned the unnamed summary of two assertions added while idle
C23_Witness ==
  /\ mcp.op = "end"
  /\ mcp.ret.name = "unnamed"
  /\ mcp.ret.total = 2
  /\ mcp.ret.startedAt = mcp.ret.endedAt

\* a name with '..', '/' or '\' in it
BadName(name) ==
  \/ \E i \in 1..Len(name) : name[i] \in {"/", "\\"}
  \/ \E i \in 1..(Len(name) - 1) : name[i] = "." /\ name[i + 1] = "."

\* C24: for every baseline name containing '..', '/' or '\', each of save,
\* saveDiff, load and exists fails with the invalid-name error and leaves
\* the stored baselines and diffs unchanged.
C24_InvalidNameRejected ==
  [][(mcp'.op \in {"save", "saveDiff", "load", "exists"}
        /\ BadName(mcp'.arg.name)) =>
        /\ mcp'.ret = Throw(ErrInvalidName)
        /\ mcp'.files = mcp.files]_vars

\* save has just been refused for '../a' while a baseline and a diff are
\* stored
C24_Witness ==
  /\ mcp.op = "save"
  /\ mcp.arg.name = <<".", ".", "/", "a">>
  /\ mcp.ret.k = "throw"
  /\ Cardinality(DOMAIN mcp.files) >= 2

\* what load(name) would return
Stored(files, name) == load(files, name).ret

\* C25: for every valid name, load(name) right after save(name, b) returns
\* b, whatever was stored before; a save leaves what is stored under every
\* other valid name unchanged; load of a name never saved returns null.
C25_SaveThenLoad ==
  [][/\ (mcp.op = "save" /\ ~BadName(mcp.arg.name) /\ mcp'.op = "load"
           /\ mcp'.arg.name = mcp.arg.name) =>
          mcp'.ret = Ok(mcp.arg.buffer)
     /\ (mcp'.op = "save" /\ ~BadName(mcp'.arg.name)) =>
          /\ mcp'.ret.k = "ok"
          /\ Stored(mcp'.files, mcp'.arg.name) = Ok(mcp'.arg.buffer)
          /\ \A n \in StoreNames :
               (~BadName(n) /\ n # mcp'.arg.name) =>
                 Stored(mcp'.files, n) = Stored(mcp.files, n)
     /\ (mcp'.op = "load" /\ ~BadName(mcp'.arg.name)
           /\ mcp'.arg.name \notin mcp.saved) =>
          mcp'.ret = Ok(NullValue)]_vars

\* load('a') has returned the buffer a second save('a', ..) wrote over a
\* different one, another name's baseline being stored too
C25_Witness ==
  /\ mcp.op = "load"
  /\ mcp.arg.name = <<"a">>
  /\ mcp.ret = Ok(NotPng)
  /\ mcp.saved = {<<"a">>, <<"a", ".", "b">>}
  /\ Stored(mcp.files, <<"a", ".", "b">>) = Ok(Png(1, 1, <<0>>))

\* a test_visual_compare call returns in this step
VisualCompareReturns ==
  mcp'.op = "return" /\ mcp'.arg.tool = "test_visual_compare"

\* the baseline file of the call in progress is on the disk
HasBaseline ==
  ~BadName(mcp.call.a.name)
    /\ BaselinePath(BaseDir, mcp.call.a.name) \in DOMAIN mcp.files

\* C26 (as claimed): a test_visual_compare call for a name with no stored
\* baseline saves the fresh screenshot as the baseline, returns firstRun
\* and baselineSaved and records no assertion; every call for a name that
\* has a baseline records exactly one assertion, its passed flag being the
\* comparison's match.
C26_EveryVisualCompareAsserts ==
  [][VisualCompareReturns =>
       IF HasBaseline
       THEN /\ Len(mcp'.session.assertions) = Len(mcp.session.assertions) + 1
            /\ mcp'.ret.k = "ok"
            /\ mcp'.session.assertions[Len(mcp'.session.assertions)].passed
                 = mcp'.ret.value.match
       ELSE /\ mcp'.ret = Ok([firstRun |-> TRUE, baselineSaved |-> TRUE,
                             name |-> mcp.call.a.name])
            /\ mcp'.session = mcp.session]_vars

\* C26 (amended): when the screenshot command succeeds for a valid name,
\* a call that finds no baseline saves the screenshot as the baseline,
\* returns firstRun and baselineSaved and records no assertion; a call that
\* finds a baseline records exactly one assertion, passed iff the two
\* images are equal, when both decode, and fails without an assertion when
\* one does not; a call whose screenshot command fails, or whose name is
\* invalid, fails and records nothing.
C26_VisualCompareAsserts ==
  [][VisualCompareReturns =>
       LET name == mcp.call.a.name
           before == mcp.session.assertions
           after == mcp'.session.assertions
           path == BaselinePath(BaseDir, name)
       IN IF mcp'.arg.command = "rejected" \/ BadName(name)
          THEN mcp'.ret.k = "throw" /\ after = before
                 /\ mcp'.files = mcp.files
          ELSE LET actual == mcp.call.data.data.of IN
               IF ~HasBaseline
               THEN /\ mcp'.ret = Ok([firstRun |-> TRUE,
                                      baselineSaved |-> TRUE, name |-> name])
                    /\ after = before
                    /\ mcp'.files[path] = actual
               ELSE IF NotPng \in {actual, mcp.files[path]}
               THEN mcp'.ret.k = "throw" /\ after = before
               ELSE /\ Len(after) = Len(before) + 1
                    /\ SubSeq(after, 1, Len(before)) = before
                    /\ after[Len(after)].passed = (actual = mcp.files[path])
                    /\ mcp'.ret.k = "ok"
                    /\ mcp'.ret.value.match = (actual = mcp.files[path])
                    /\ mcp'.files[path] = mcp.files[path]]_vars

\* a call has compared the screenshot with a baseline of the same size and
\* recorded a failed assertion, after an earlier one that passed
C26_Witness ==
  /\ mcp.op = "return"
  /\ mcp.arg.tool = "test_visual_compare"
  /\ mcp.ret.k = "ok"
  /\ "match" \in DOMAIN mcp.ret.value
  /\ mcp.ret.value.diffPixels = 1
  /\ Len(mcp.session.assertions) = 2
  /\ mcp.session.assertions[1].passed
  /\ ~mcp.session.assertions[2].passed

\* C27 (as claimed): whenever test_visual_compare finds that the screenshot
\* does not match the baseline, different dimensions included, a diff image
\* for that name is in the diffs directory when the call returns.
C27_MismatchWritesDiff ==
  [][(VisualCompareReturns /\ mcp'.ret.k = "ok"
        /\ "match" \in DOMAIN mcp'.ret.value /\ ~mcp'.ret.value.match) =>
       DiffPath(BaseDir, mcp.call.a.name) \in DOMAIN mcp'.files]_vars

\* C28 (as claimed): every invocation of the element, text, url and count
\* assertion tools records exactly one assertion and returns a structured
\* result with passed in it; when the read command fails, the assertion
\* recorded is passed only for the not_exists and hidden states.
C28_EveryAssertToolRecords ==
  [][(mcp'.op = "return" /\ mcp'.arg.tool \in AssertTools) =>
       LET before == mcp.session.assertions
           after == mcp'.session.assertions
       IN /\ Len(after) = Len(before) + 1
          /\ SubSeq(after, 1, Len(before)) = before
          /\ mcp'.ret.k = "ok"
          /\ mcp'.ret.value.passed = after[Len(after)].passed
          /\ mcp'.arg.command = "rejected" =>
               after[Len(after)].passed
                 = (mcp'.arg.tool = "test_assert_element"
                      /\ mcp'.arg.a.state \in {"not_exists", "hidden"})]_vars

\* an entry the assertion is looking for: the url contains the substring,
\* the method, when one is given (a non-empty string), is the same ignoring
\* case, and the status, when one is given, is the same
Wanted(r, a) ==
  /\ \E i \in 1..Len(r.url) :
       i + Len(a.url) - 1 <= Len(r.url)
         /\ \A j \in 1..Len(a.url) : r.url[i + j - 1] = a.url[j]
  /\ (a.method.given /\ a.method.v # "") =>
       ToUpperCase(r.method) = ToUpperCase(a.method.v)
  /\ a.status.given => r.status = a.status.v

AuditedValue ==
  IF last.op = "sendCommand" THEN last.frame.params
  ELSE ExtensionId(last.frame)

\* C30: in every audit record a string value longer than 200 characters
\* appears as its first 200 characters followed by the marker; a string of
\* 200 characters or fewer and a value that is no string are recorded
\* unchanged.
C30_LongStringsTruncated ==
  \A j \in Kinds(last.eff, "audit") :
    LET a == last.eff[j].params
        p == AuditedValue
    IN IF p.isString /\ p.len > 200
       THEN /\ a.isString
            /\ a.cut
            /\ a.text = p.text
            /\ a.len = 200 + TruncMarkerLen
       ELSE a = p

\* the audit record of a command whose string is one character over the
\* limit has just been written, cut
C30_Witness ==
  /\ last.op = "sendCommand"
  /\ last.frame.params.len = 201
  /\ \E j \in Kinds(last.eff, "audit") :
       last.eff[j].params.cut /\ last.eff[j].params.len = 214

\* the host h is the host of the URL, or the host of the URL is a
\* dot-separated subdomain of h
SameOrSubdomain(hostname, h) ==
  \/ hostname = h
  \/ \E k \in 1..(Len(hostname) - 1) :
       SubSeq(hostname, k + 1, Len(hostname)) = h

\* some entry of the allowlist, parsed with https:// in front when it has
\* no scheme, has a host that matches the host of the URL
SomeEntryMatches(origins, hostname) ==
  \E i \in 1..Len(origins) :
    LET parsedOrigin == ParseUrl(WithScheme(origins[i])) IN
    parsedOrigin.ok /\ SameOrSubdomain(hostname, parsedOrigin.hostname)

\* C31: isAllowed(url) is false when the URL does not parse, true when its
\* scheme is file:, and otherwise true exactly when some configured origin
\* entry has a host equal to the URL's host or of which the URL's host is a
\* dot-separated subdomain.
C31_AllowedIffSomeEntryMatches ==
  ext.op = "isUrlAllowed" =>
    LET parsed == ParseUrl(ext.frame.url) IN
    ext.eff[1].v =
      IF ~parsed.ok THEN FALSE
      ELSE IF parsed.protocol = "file:" THEN TRUE
      ELSE SomeEntryMatches(ext.allowedOrigins, parsed.hostname)

\* C32: every armed timer belongs to an id that is in the pending table:
\* the timer of a request is cleared when its response arrives, when the
\* peer disconnects and when the bridge is stopped, so no timer is left
\* armed for a request that was settled.
C32_TimersBelongToPending == timers \subseteq pending

\* a response has settled one call while the timer of another is armed
C32_Witness ==
  /\ last.op = "message"
  /\ \E j \in Kinds(last.eff, "settle") : last.eff[j].how.by = "response"
  /\ timers # {}

\* C33: the extension's allowlist holds each origin at most once, after any
\* number of handshakes: the origins of an auth_result are added as a set
\* union.
C33_AllowlistWithoutDuplicates ==
  \A i, j \in 1..Len(ext.allowedOrigins) :
    ext.allowedOrigins[i] = ext.allowedOrigins[j] => i = j

\* C34: the onConnect and onDisconnect callbacks alternate, starting with
\* onConnect: onConnect fires at most once for a connection, and
\* onDisconnect fires only for the loss of a connection for which onConnect
\* has fired (authOk holds the connections for which it has).
C34_CallbacksAlternate ==
  [][/\ Kinds(last'.eff, "onConnect") # {} => ~authOk[last'.conn]
     /\ Kinds(last'.eff, "onDisconnect") # {} => authOk[last'.conn]]_vars

C36_NoPeerNoPending == client = Null => pending = {}

\* the current client has closed with requests pending, which the close
\* handler has rejected
C36_Witness ==
  /\ last.op = "close"
  /\ Kinds(last.eff, "settle") # {}
  /\ client = Null

\* C37: a connection that never authenticates cannot keep a holder of the
\* valid token out: a peer with the valid token that keeps attempting to
\* connect while the bridge is running eventually becomes the authenticated
\* peer, even when another connection that has not authenticated stays open.
C37_HolderEventuallyAuthenticated ==
  <>(\E c \in HolderConns : client = c /\ isAuthenticated /\ Authenticated(c))

\* C38: in the extension, the events of a socket that has been replaced
\* (its close event arriving after set_config opened a new socket) never
\* alter the state of the current connection: whenever the current socket
\* is open its keepalive timer is armed, and a close event clears
\* isAuthenticated only when it is the close of the current socket.
C38_ReplacedSocketInert ==
  /\ [](ext.ws # Null /\ ext.readyState[ext.ws] = "OPEN"
          => ext.keepaliveTimer)
  /\ [][(ext'.op = "close" /\ ext.isAuthenticated /\ ~ext'.isAuthenticated)
          => ext'.sock = ext.ws]_vars

\* C39: the extension executes a command frame only on a connection on
\* which it has received auth_result with success true: in every other
\* state (no token configured, auth not yet answered, auth failed) a
\* received command is not executed.
C39_CommandsOnlyAfterAuth ==
  [][(ext'.op = "message" /\ ext'.frame.type = "command"
        /\ ext'.job # NoJob)
       => ext.isAuthenticated]_vars

\* C40: the token comparison returns early only when the two strings differ
\* in length; for strings of equal length it examines every character
\* position, whatever the place of the first mismatch, and it returns true
\* iff all positions are equal.
C40_ComparisonReadsEveryPosition ==
  last.op = "timingSafeEqual" =>
    LET a == last.frame.a
        b == last.frame.b
        reads == Kinds(last.eff, "charCodeAt")
        value == last.eff[Len(last.eff)].v IN
    /\ Len(a) # Len(b) => reads = {} /\ value = FALSE
    /\ Len(a) = Len(b) =>
         /\ Cardinality(reads) = Len(a)
         /\ \A i \in 1..Len(a) : \E j \in reads : last.eff[j].i = i
         /\ value = (\A i \in 1..Len(a) : a[i] = b[i])

\* two strings of one length that differ in the first place and agree in
\* the last have been compared
C40_Witness ==
  /\ last.op = "timingSafeEqual"
  /\ Len(last.frame.a) = Len(last.frame.b)
  /\ Len(last.frame.a) >= 2
  /\ last.frame.a[1] # last.frame.b[1]
  /\ last.frame.a[Len(last.frame.a)] = last.frame.b[Len(last.frame.a)]
  /\ ~last.eff[Len(last.eff)].v

====
